---- MODULE Spec2Model ----
(***************************************************************************)
(* Shared counter behind a request-admission layer (convex/security.ts,    *)
(* convex/counter.ts, the admin mutations and the client hook).            *)
(*                                                                         *)
(* Modelling conventions                                                   *)
(*  - A table is a sequence of records in insertion order; `.first()` on   *)
(*    an index is the first matching record of the sequence.               *)
(*  - ctx.db.insert / patch / delete take effect when called and stay in   *)
(*    effect when the handler afterwards throws; a handler runs as one     *)
(*    atomic step (the storage contract of section 1 and 5 of the spec).   *)
(*  - Every Date.now() of one handler run reads the same instant.          *)
(*  - An optional field is <<>> (undefined) or <<x>>.                      *)
(*  - JavaScript numbers that can be fractional (violationCount, the       *)
(*    expectedVersion argument) are fixed point with one decimal digit:    *)
(*    ONE stands for 1.0 and DECAY for 0.1.                                *)
(*  - A counter name is the sequence of its characters.                    *)
(*  - Fields no decision reads (ipAddress, userAgent, details,             *)
(*    processingTime) are left out of the records.                         *)
(***************************************************************************)
EXTENDS Integers, Sequences, FiniteSets, TLC

VARIABLES
  now,             \* the last value Date.now() returned
  counters,        \* table "counters"
  userSessions,    \* table "userSessions"
  securityEvents,  \* table "securityEvents"
  requestAudit,    \* table "requestAudit"
  responses,       \* what each completed call returned or threw, in order
  view,            \* per client: the counter the hook's useQuery last delivered
  retry,           \* the run of executeWithRetry in the browser of client s1
  inflight         \* per transaction slot: a mutation that has read and not yet committed

vars == <<now, counters, userSessions, securityEvents, requestAudit, responses, view, retry,
          inflight>>

-----------------------------------------------------------------------------
(* Bounds of the model *)

MaxOps == 3
MaxApiOps == 3
MaxAdmissionOps == 4
MaxBurstOps == 10
MaxAdminOps == 4
MaxRetryOps == 5
MaxEventOps == 4
MaxTxOps == 3
MaxVolumeOps == 4
MaxDecayOps == 41
\* duration, in ms, of the admin blocks that build a start state's violationCount
SeedBlockDuration == 1

-----------------------------------------------------------------------------
(* Program constants *)

ONE == 10
DECAY == 1

RATE_LIMIT_WINDOW == 10000
MAX_REQUESTS == 100
RATE_LIMIT_DELAY == 100
BLOCK_DURATION_BASE == 60000
VIOLATION_THRESHOLD == 5
MAX_COUNTER_VALUE == 1000000
MIN_COUNTER_VALUE == -1000000
MAX_COUNTER_NAME_LENGTH == 50
AUTOMATION_DETECTION_THRESHOLD == 50
EXPONENTIAL_BACKOFF_MULTIPLIER == 2
MAX_RETRY_ATTEMPTS == 3
RETRY_DELAY_MS == 100
MAX_BLOCK_DURATION == 24 * 60 * 60 * 1000

GlobalCounter == <<"g","l","o","b","a","l","-","c","o","u","n","t","e","r">>
VALID_COUNTER_NAMES == {GlobalCounter}
InjectionChars == {"<", ">", "\"", "'", "&", "\\"}

-----------------------------------------------------------------------------
(* Generic helpers *)

None == <<>>
Some(x) == <<x>>

Max(a, b) == IF a >= b THEN a ELSE b
Min(a, b) == IF a <= b THEN a ELSE b

\* JavaScript truthiness of an optional number: undefined and 0 are falsy.
Truthy(opt) == opt # None /\ opt[1] # 0

\* Index of the first record of table `t` whose `field` equals `value`
\* (withIndex(...).first()), 0 when there is none.
FirstIndex(t, field, value) ==
  IF \E i \in 1..Len(t) : t[i][field] = value
  THEN CHOOSE i \in 1..Len(t) :
         t[i][field] = value /\ \A j \in 1..(i - 1) : t[j][field] # value
  ELSE 0

-----------------------------------------------------------------------------
(* convex/security.ts: validation *)

\* { isValid, error } of validateCounterName
validateCounterName(name) ==
  IF name = <<>> THEN
    [isValid |-> FALSE, error |-> "Counter name must be a non-empty string"]
  ELSE IF Len(name) > MAX_COUNTER_NAME_LENGTH THEN
    [isValid |-> FALSE, error |-> "Counter name too long"]
  ELSE IF name \notin VALID_COUNTER_NAMES THEN
    [isValid |-> FALSE, error |-> "Invalid counter name"]
  ELSE IF \E i \in 1..Len(name) : name[i] \in InjectionChars THEN
    [isValid |-> FALSE, error |-> "Invalid characters in counter name"]
  ELSE [isValid |-> TRUE, error |-> ""]

\* { isValid, error } of validateCounterValue, for the (always finite) integers
validateCounterValue(value) ==
  IF value > MAX_COUNTER_VALUE \/ value < MIN_COUNTER_VALUE THEN
    [isValid |-> FALSE, error |-> "Counter value out of allowed range"]
  ELSE [isValid |-> TRUE, error |-> ""]

\* Number.isInteger of a fixed-point number
IsInteger(x) == x % ONE = 0

\* { isValid, error } of validateVersion; `version` is fixed point
validateVersion(version) ==
  IF ~IsInteger(version) \/ version < 0 THEN
    [isValid |-> FALSE, error |-> "Version must be a non-negative integer"]
  ELSE [isValid |-> TRUE, error |-> ""]

\* Mutant of detectAutomation: the rate-limit delay taken for the threshold.
detectAutomationAtDelay(session, currentTime) ==
  IF session.lastActivity = 0 THEN FALSE
  ELSE currentTime - session.lastActivity < RATE_LIMIT_DELAY

\* detectAutomation(session, currentTime)
detectAutomation(session, currentTime) ==
  IF session.lastActivity = 0 THEN FALSE
  ELSE currentTime - session.lastActivity < AUTOMATION_DETECTION_THRESHOLD

RECURSIVE Pow(_, _)
Pow(b, n) == IF n = 0 THEN 1 ELSE b * Pow(b, n - 1)

\* ceil(60000 * 2^((v - 50) / 10)) for v = 0 .. 155 tenths, cut at 24 h. Math.pow
\* of a fractional exponent is not an integer; blockUntil is only ever compared
\* with integer clock readings, and rounding up keeps every such comparison.
BlockDurationTable ==
  << 1875, 2010, 2154, 2309, 2475, 2652, 2842, 3046,
     3265, 3499, 3750, 4020, 4308, 4617, 4949, 5304,
     5684, 6092, 6530, 6998, 7500, 8039, 8616, 9234,
     9897, 10607, 11368, 12184, 13059, 13996, 15000, 16077,
     17231, 18468, 19793, 21214, 22736, 24368, 26117, 27991,
     30000, 32154, 34461, 36935, 39586, 42427, 45472, 48736,
     52234, 55982, 60000, 64307, 68922, 73869, 79171, 84853,
     90943, 97471, 104467, 111964, 120000, 128613, 137844, 147738,
     158341, 169706, 181886, 194941, 208933, 223928, 240000, 257226,
     275688, 295475, 316682, 339412, 363772, 389882, 417865, 447856,
     480000, 514452, 551376, 590950, 633364, 678823, 727544, 779763,
     835729, 895712, 960000, 1028903, 1102751, 1181899, 1266728, 1357646,
     1455088, 1559525, 1671458, 1791424, 1920000, 2057806, 2205501, 2363798,
     2533456, 2715291, 2910176, 3119050, 3342915, 3582847, 3840000, 4115611,
     4411002, 4727595, 5066911, 5430581, 5820352, 6238099, 6685829, 7165694,
     7680000, 8231221, 8822004, 9455190, 10133821, 10861161, 11640704, 12476197,
     13371657, 14331387, 15360000, 16462441, 17644007, 18910379, 20267642, 21722321,
     23281407, 24952394, 26743314, 28662774, 30720000, 32924881, 35288014, 37820757,
     40535284, 43444641, 46562813, 49904788, 53486627, 57325548, 61440000, 65849762,
     70576027, 75641513, 81070567, 86400000 >>

\* Mutant of calculateBlockDuration: the exponent counted from one below the
\* threshold, so that the first block already lasts two base durations.
calculateBlockDurationOffByOne(violationCount) ==
  LET e == violationCount - (VIOLATION_THRESHOLD - 1) * ONE
  IN IF violationCount + 1 > Len(BlockDurationTable) THEN MAX_BLOCK_DURATION
     ELSE IF IsInteger(e) /\ e >= 0 THEN
       Min(BLOCK_DURATION_BASE * Pow(EXPONENTIAL_BACKOFF_MULTIPLIER, e \div ONE),
           MAX_BLOCK_DURATION)
     ELSE Min(2 * BlockDurationTable[violationCount + 1], MAX_BLOCK_DURATION)

\* Mutant of calculateBlockDuration: the cap an hour instead of a day.
calculateBlockDurationHourCap(violationCount) ==
  LET e == violationCount - VIOLATION_THRESHOLD * ONE
      cap == 60 * 60 * 1000
  IN IF violationCount + 1 > Len(BlockDurationTable) THEN cap
     ELSE IF IsInteger(e) /\ e >= 0 THEN
       Min(BLOCK_DURATION_BASE * Pow(EXPONENTIAL_BACKOFF_MULTIPLIER, e \div ONE), cap)
     ELSE Min(BlockDurationTable[violationCount + 1], cap)

\* calculateBlockDuration(violationCount), violationCount in tenths, result in ms
calculateBlockDuration(violationCount) ==
  LET e == violationCount - VIOLATION_THRESHOLD * ONE
  IN IF violationCount + 1 > Len(BlockDurationTable) THEN MAX_BLOCK_DURATION
     ELSE IF IsInteger(e) /\ e >= 0 THEN
       Min(BLOCK_DURATION_BASE * Pow(EXPONENTIAL_BACKOFF_MULTIPLIER, e \div ONE),
           MAX_BLOCK_DURATION)
     ELSE Min(BlockDurationTable[violationCount + 1], MAX_BLOCK_DURATION)

\* the record logRequest inserts into requestAudit
logRequest(sessionId, action, input, result, timestamp) ==
  [sessionId |-> sessionId, action |-> action, input |-> input,
   result |-> result, timestamp |-> timestamp]

\* the record logSecurityEvent inserts into securityEvents
logSecurityEvent(sessionId, eventType, severity, timestamp) ==
  [sessionId |-> sessionId, eventType |-> eventType, severity |-> severity,
   timestamp |-> timestamp, resolved |-> FALSE]

\* the name / expectedVersion part of a handler's args, as the audit keeps it
AuditInput(args) == [name |-> args.name, expectedVersion |-> args.expectedVersion]

\* Mutant of NewSession: the first request not counted.
NewSessionUncounted(sessionId, currentTime) ==
  [sessionId |-> sessionId, lastActivity |-> currentTime, requestCount |-> 0,
   windowStart |-> currentTime, violationCount |-> 0, isBlocked |-> FALSE,
   blockUntil |-> None, createdAt |-> currentTime]

\* the userSessions record of a first request
NewSession(sessionId, currentTime) ==
  [sessionId |-> sessionId, lastActivity |-> currentTime, requestCount |-> 1,
   windowStart |-> currentTime, violationCount |-> 0, isBlocked |-> FALSE,
   blockUntil |-> None, createdAt |-> currentTime]

-----------------------------------------------------------------------------
(* convex/security.ts: the admission controller *)

\* The four tables, as a handler's ctx.db sees them.
Db == [counters |-> counters, userSessions |-> userSessions,
       securityEvents |-> securityEvents, requestAudit |-> requestAudit]

\* Mutant of Deny: the denial thrown without its audit entry.
DenyUnaudited(db, sessions, events, sessionId, action, args, result, currentTime) ==
  [shouldProceed |-> FALSE, result |-> result,
   db |-> [db EXCEPT !.userSessions = sessions, !.securityEvents = @ \o events]]

\* A thrown denial: the events and the audit entry are inserted first.
Deny(db, sessions, events, sessionId, action, args, result, currentTime) ==
  [shouldProceed |-> FALSE, result |-> result,
   db |-> [db EXCEPT
             !.userSessions = sessions,
             !.securityEvents = @ \o events,
             !.requestAudit =
               Append(@, logRequest(sessionId, action, args, result, currentTime))]]

\* return { shouldProceed: true, ... }
Proceed(db, sessions) ==
  [shouldProceed |-> TRUE, result |-> "success",
   db |-> [db EXCEPT !.userSessions = sessions]]

\* Mutant of AtThreshold: the block only over the threshold.
AtThresholdStrict(violationCount) == violationCount > VIOLATION_THRESHOLD * ONE

\* Mutant of AtThreshold: the block one violation early.
AtThresholdEarly(violationCount) == violationCount >= (VIOLATION_THRESHOLD - 1) * ONE

\* violationCount >= VIOLATION_THRESHOLD
AtThreshold(violationCount) == violationCount >= VIOLATION_THRESHOLD * ONE

\* The tail shared by the automation, rate-limit and volume checks: with the
\* incremented violationCount at or over the threshold the session is blocked
\* and the request is answered "blocked", otherwise the counters are patched
\* and the request is answered "rate_limited". `patched` is the stored record
\* with the fields the non-blocking patch writes besides violationCount and
\* lastActivity.
EnforceThreshold(db, i, stored, patched, violationCount, violationEvent, blockSeverity, sessionId, action, args, currentTime) ==
  IF AtThreshold(violationCount) THEN
    LET blockDuration == calculateBlockDuration(violationCount)
        blocked == [stored EXCEPT !.isBlocked = TRUE,
                                  !.blockUntil = Some(currentTime + blockDuration),
                                  !.violationCount = violationCount,
                                  !.lastActivity = currentTime]
    IN Deny(db, [db.userSessions EXCEPT ![i] = blocked],
            <<violationEvent,
              logSecurityEvent(sessionId, "blocked", blockSeverity, currentTime)>>,
            sessionId, action, args, "blocked", currentTime)
  ELSE
    Deny(db, [db.userSessions EXCEPT ![i] =
                [patched EXCEPT !.violationCount = violationCount,
                                !.lastActivity = currentTime]],
         <<violationEvent>>, sessionId, action, args, "rate_limited", currentTime)

\* Mutant of OverVolume: one request more let through.
OverVolumeLate(requestCount) == requestCount > MAX_REQUESTS + 1

\* Mutant of OverVolume: the window's last request refused.
OverVolumeEarly(requestCount) == requestCount >= MAX_REQUESTS

\* requestCount > MAX_REQUESTS, of the incremented requestCount
OverVolume(requestCount) == requestCount > MAX_REQUESTS

\* Mutant of StillBlocked: the block still held at the instant it ends.
StillBlockedInclusive(session, currentTime) ==
  session.isBlocked /\ Truthy(session.blockUntil)
  /\ session.blockUntil[1] >= currentTime

\* session.isBlocked && session.blockUntil && session.blockUntil > currentTime
StillBlocked(session, currentTime) ==
  session.isBlocked /\ Truthy(session.blockUntil)
  /\ session.blockUntil[1] > currentTime

\* Mutant of ExpireBlock: the end time cleared, the flag left set.
ExpireBlockKeepsFlag(stored) ==
  [stored EXCEPT !.blockUntil = None, !.violationCount = Max(0, @ - ONE)]

\* The unblock patch of an expired block.
ExpireBlock(stored) ==
  [stored EXCEPT !.isBlocked = FALSE, !.blockUntil = None,
                 !.violationCount = Max(0, @ - ONE)]

\* Mutant of AdmitPatch: the decay without its floor.
AdmitPatchUnfloored(stored, requestCount, windowStart, violationCount, currentTime) ==
  [stored EXCEPT !.requestCount = requestCount, !.windowStart = windowStart,
                 !.lastActivity = currentTime,
                 !.violationCount = violationCount - DECAY]

\* Mutant of AdmitPatch: requestCount left out of the patch.
AdmitPatchKeepsRequestCount(stored, requestCount, windowStart, violationCount, currentTime) ==
  [stored EXCEPT !.windowStart = windowStart, !.lastActivity = currentTime,
                 !.violationCount = Max(0, violationCount - DECAY)]

\* Mutant of AdmitPatch: windowStart left out of the patch.
AdmitPatchKeepsWindow(stored, requestCount, windowStart, violationCount, currentTime) ==
  [stored EXCEPT !.requestCount = requestCount, !.lastActivity = currentTime,
                 !.violationCount = Max(0, violationCount - DECAY)]

\* The patch of an admitted request.
AdmitPatch(stored, requestCount, windowStart, violationCount, currentTime) ==
  [stored EXCEPT !.requestCount = requestCount, !.windowStart = windowStart,
                 !.lastActivity = currentTime,
                 !.violationCount = Max(0, violationCount - DECAY)]

\* Mutant of BlockedAttempt: the attempt recorded as the session's activity.
BlockedAttemptTouches(db, i, sessionId, action, args, currentTime) ==
  Deny(db, [db.userSessions EXCEPT ![i].lastActivity = currentTime],
       <<logSecurityEvent(sessionId, "blocked_access_attempt", "high", currentTime)>>,
       sessionId, action, args, "blocked", currentTime)

\* The answer to a session still blocked: the event, the audit entry, the
\* throw; no patch.
BlockedAttempt(db, i, sessionId, action, args, currentTime) ==
  Deny(db, db.userSessions,
       <<logSecurityEvent(sessionId, "blocked_access_attempt", "high", currentTime)>>,
       sessionId, action, args, "blocked", currentTime)

\* validateAndEnforceSecurity(ctx, sessionId, action, args) at Date.now() =
\* currentTime: [shouldProceed, result, db], db being the tables afterwards.
validateAndEnforceSecurity(db, sessionId, action, args, currentTime) ==
  IF args.name # <<>> /\ ~validateCounterName(args.name).isValid THEN
    Deny(db, db.userSessions,
         <<logSecurityEvent(sessionId, "invalid_input", "medium", currentTime)>>,
         sessionId, action, args, "invalid_input", currentTime)
  ELSE IF args.expectedVersion # None
          /\ ~validateVersion(args.expectedVersion[1]).isValid THEN
    Deny(db, db.userSessions,
         <<logSecurityEvent(sessionId, "invalid_input", "medium", currentTime)>>,
         sessionId, action, args, "invalid_input", currentTime)
  ELSE
    LET i == FirstIndex(db.userSessions, "sessionId", sessionId) IN
    IF i = 0 THEN
      Proceed(db, Append(db.userSessions, NewSession(sessionId, currentTime)))
    ELSE IF StillBlocked(db.userSessions[i], currentTime) THEN
      BlockedAttempt(db, i, sessionId, action, args, currentTime)
    ELSE
      LET read == db.userSessions[i]
          expired == read.isBlocked
                     /\ (~Truthy(read.blockUntil) \/ read.blockUntil[1] <= currentTime)
          \* the stored record after the unblock patch
          stored == IF expired THEN ExpireBlock(read) ELSE read
          \* the handler's own copy: the unblock leaves its violationCount as read
          session == IF expired
                     THEN [read EXCEPT !.isBlocked = FALSE, !.blockUntil = None]
                     ELSE read
          windowExpired == currentTime - session.windowStart > RATE_LIMIT_WINDOW
          requestCount == IF windowExpired THEN 0 ELSE session.requestCount
          windowStart == IF windowExpired THEN currentTime ELSE session.windowStart
          violationCount == session.violationCount
      IN
      IF detectAutomation(session, currentTime) THEN
        EnforceThreshold(db, i, stored, stored, violationCount + ONE,
          logSecurityEvent(sessionId, "automation_detected", "high", currentTime),
          "critical", sessionId, action, args, currentTime)
      ELSE IF currentTime - session.lastActivity < RATE_LIMIT_DELAY THEN
        EnforceThreshold(db, i, stored, stored, violationCount + ONE,
          logSecurityEvent(sessionId, "rate_limit", "medium", currentTime),
          "high", sessionId, action, args, currentTime)
      ELSE IF OverVolume(requestCount + 1) THEN
        EnforceThreshold(db, i, stored,
          [stored EXCEPT !.requestCount = requestCount + 1], violationCount + ONE,
          logSecurityEvent(sessionId, "ddos_attempt", "critical", currentTime),
          "critical", sessionId, action, args, currentTime)
      ELSE
        Proceed(db, [db.userSessions EXCEPT ![i] =
                       AdmitPatch(stored, requestCount + 1, windowStart,
                                  violationCount, currentTime)])

-----------------------------------------------------------------------------
(* convex/counter.ts *)

\* What a handler hands back: the result code (the audit's vocabulary; "success"
\* for a return), the returned record if any, and the tables afterwards.
Outcome(result, returned, db) == [result |-> result, returned |-> returned, db |-> db]

\* ctx.db.query("counters").withIndex("by_name", q => q.eq("name", name)).first()
CounterIndex(table, name) ==
  FirstIndex(table, "name", name)

\* the record getCounter / initializeCounter return for an absent counter
DefaultCounter(name, t) ==
  [name |-> name, value |-> 0, lastUpdated |-> t, version |-> 0,
   lastModifiedBy |-> None]

\* getCounter: the stored record, or the default one; writes nothing
getCounter(db, name, t) ==
  LET i == CounterIndex(db.counters, name)
  IN IF i # 0 THEN db.counters[i] ELSE DefaultCounter(name, t)

\* Mutant of initializeCounter: the insert not guarded by the lookup.
initializeCounterUnguarded(db, name, t) ==
  Outcome("success", Some(DefaultCounter(name, t)),
          [db EXCEPT !.counters = Append(@, DefaultCounter(name, t))])

\* Mutant of initializeCounter: an existing counter put back to value 0 /
\* version 0.
initializeCounterResetting(db, name, t) ==
  LET i == CounterIndex(db.counters, name)
  IN IF i = 0
     THEN Outcome("success", Some(DefaultCounter(name, t)),
                  [db EXCEPT !.counters = Append(@, DefaultCounter(name, t))])
     ELSE Outcome("success", Some(DefaultCounter(name, t)),
                  [db EXCEPT !.counters[i] = DefaultCounter(name, t)])

\* initializeCounter
initializeCounter(db, name, t) ==
  LET i == CounterIndex(db.counters, name)
  IN IF i = 0
     THEN Outcome("success", Some(DefaultCounter(name, t)),
                  [db EXCEPT !.counters = Append(@, DefaultCounter(name, t))])
     ELSE Outcome("success", Some(db.counters[i]), db)

\* Mutants of VersionMismatch: the check dropped; only a version behind the
\* stored one refused; only a version ahead of it refused.
VersionMismatchNever(counter, args) == FALSE
VersionMismatchBehindOnly(counter, args) ==
  args.expectedVersion # None /\ counter.version * ONE > args.expectedVersion[1]
VersionMismatchAheadOnly(counter, args) ==
  args.expectedVersion # None /\ counter.version * ONE < args.expectedVersion[1]

\* args.expectedVersion !== undefined && counter.version !== args.expectedVersion
VersionMismatch(counter, args) ==
  args.expectedVersion # None /\ counter.version * ONE # args.expectedVersion[1]

\* Mutant of OutOfRange: the lower limit forgotten.
OutOfRangeUpperOnly(newValue) == newValue > 1000000

\* Mutant of OutOfRange: each limit one step too far out.
OutOfRangeLate(newValue) ==
  newValue > MAX_COUNTER_VALUE + 1 \/ newValue < MIN_COUNTER_VALUE - 1

\* newValue > 1000000 || newValue < -1000000
OutOfRange(newValue) == newValue > 1000000 \/ newValue < -1000000

\* Mutant of NextVersion: the version written back as read.
NextVersionStuck(counter) == counter.version

\* Mutant of NextVersion: the version moved on by two.
NextVersionSkips(counter) == counter.version + 2

\* const newVersion = counter.version + 1
NextVersion(counter) == counter.version + 1

\* Mutant of CreatedCounter: created the way initializeCounter creates, at
\* version 0.
CreatedCounterAtZero(name, sessionId, delta, t) ==
  [name |-> name, value |-> delta, lastUpdated |-> t, version |-> 0,
   lastModifiedBy |-> Some(sessionId)]

\* The record increment (delta 1) and decrement (delta -1) insert for an absent
\* counter.
CreatedCounter(name, sessionId, delta, t) ==
  [name |-> name, value |-> delta, lastUpdated |-> t, version |-> 1,
   lastModifiedBy |-> Some(sessionId)]

\* Mutant of EngineAudit: the engine's outcome not audited.
EngineAuditSilent(db, args, sessionId, action, result, t) == db

\* The engine's own audit insert.
EngineAudit(db, args, sessionId, action, result, t) ==
  [db EXCEPT !.requestAudit =
     Append(@, logRequest(sessionId, action, AuditInput(args), result, t))]

\* The body increment and decrement share after admission: `delta` is +1 or -1.
ApplyDelta(db, args, sessionId, action, delta, t) ==
  LET i == CounterIndex(db.counters, args.name)
  IN
  IF i = 0 THEN
    LET created == CreatedCounter(args.name, sessionId, delta, t)
    IN Outcome("success", Some(created),
               EngineAudit([db EXCEPT !.counters = Append(@, created)],
                           args, sessionId, action, "success", t))
  ELSE
    LET counter == db.counters[i]
        newValue == counter.value + delta
    IN
    IF VersionMismatch(counter, args) THEN
      Outcome("version_mismatch", None,
              EngineAudit(db, args, sessionId, action, "version_mismatch", t))
    ELSE IF OutOfRange(newValue) THEN
      Outcome("value_out_of_range", None,
              EngineAudit(db, args, sessionId, action, "value_out_of_range", t))
    ELSE
      LET updated == [counter EXCEPT !.value = newValue, !.lastUpdated = t,
                                     !.version = NextVersion(counter),
                                     !.lastModifiedBy = Some(sessionId)]
      IN Outcome("success", Some(updated),
                 EngineAudit([db EXCEPT !.counters[i] = updated],
                             args, sessionId, action, "success", t))

\* Mutant of incrementCounter: the counter changed before the controller's
\* answer is looked at.
incrementCounterChecksLate(db, args, sessionId, t) ==
  LET adm == validateAndEnforceSecurity(db, sessionId, "increment", args, t)
      applied == ApplyDelta(adm.db, args, sessionId, "increment", 1, t)
  IN IF ~adm.shouldProceed THEN Outcome(adm.result, None, applied.db)
     ELSE applied

\* incrementCounter({ name, expectedVersion, sessionId })
incrementCounter(db, args, sessionId, t) ==
  LET adm == validateAndEnforceSecurity(db, sessionId, "increment", args, t)
  IN IF ~adm.shouldProceed THEN Outcome(adm.result, None, adm.db)
     ELSE ApplyDelta(adm.db, args, sessionId, "increment", 1, t)

\* decrementCounter({ name, expectedVersion, sessionId })
decrementCounter(db, args, sessionId, t) ==
  LET adm == validateAndEnforceSecurity(db, sessionId, "decrement", args, t)
  IN IF ~adm.shouldProceed THEN Outcome(adm.result, None, adm.db)
     ELSE ApplyDelta(adm.db, args, sessionId, "decrement", -1, t)

\* resetCounter({ name, sessionId }): args carries no expectedVersion
resetCounter(db, args, sessionId, t) ==
  LET adm == validateAndEnforceSecurity(db, sessionId, "reset", args, t)
      i == CounterIndex(adm.db.counters, args.name)
  IN
  IF ~adm.shouldProceed THEN Outcome(adm.result, None, adm.db)
  ELSE IF i = 0 THEN
    Outcome("counter_not_found", None,
            EngineAudit(adm.db, args, sessionId, "reset", "counter_not_found", t))
  ELSE
    LET counter == adm.db.counters[i]
        updated == [counter EXCEPT !.value = 0, !.lastUpdated = t,
                                   !.version = NextVersion(counter),
                                   !.lastModifiedBy = Some(sessionId)]
    IN Outcome("success", Some(updated),
               EngineAudit([adm.db EXCEPT !.counters[i] = updated],
                           args, sessionId, "reset", "success", t))

-----------------------------------------------------------------------------
(* The admin mutations *)

SessionIndex(table, sessionId) ==
  FirstIndex(table, "sessionId", sessionId)

\* the admin_block / admin_unblock record
AdminEvent(sessionId, eventType, severity, t) ==
  [sessionId |-> sessionId, eventType |-> eventType, severity |-> severity,
   timestamp |-> t, resolved |-> TRUE]

\* Mutant of unblockSession: the patch applied to every session.
unblockSessionAll(db, sessionId, t) ==
  LET i == SessionIndex(db.userSessions, sessionId)
  IN IF i = 0 THEN Outcome("success", None, db)
     ELSE Outcome("success", None,
            [db EXCEPT
               !.userSessions =
                  [k \in 1..Len(@) |-> [@[k] EXCEPT !.isBlocked = FALSE,
                                                    !.blockUntil = None,
                                                    !.violationCount = 0]],
               !.securityEvents =
                  Append(@, AdminEvent(sessionId, "admin_unblock", "low", t))])

\* unblockSession({ sessionId })
unblockSession(db, sessionId, t) ==
  LET i == SessionIndex(db.userSessions, sessionId)
  IN IF i = 0 THEN Outcome("success", None, db)
     ELSE Outcome("success", None,
            [db EXCEPT
               !.userSessions[i] = [@ EXCEPT !.isBlocked = FALSE, !.blockUntil = None,
                                             !.violationCount = 0],
               !.securityEvents =
                  Append(@, AdminEvent(sessionId, "admin_unblock", "low", t))])

\* blockSession({ sessionId, duration, reason })
blockSession(db, sessionId, duration, t) ==
  LET i == SessionIndex(db.userSessions, sessionId)
  IN IF i = 0 THEN Outcome("success", None, db)
     ELSE Outcome("success", None,
            [db EXCEPT
               !.userSessions[i] = [@ EXCEPT !.isBlocked = TRUE,
                                             !.blockUntil = Some(t + duration),
                                             !.violationCount = @ + ONE],
               !.securityEvents =
                  Append(@, AdminEvent(sessionId, "admin_block", "high", t))])

\* A table read through an index with .order("desc"): the records inserted
\* last come first (timestamps never decrease from one insert to the next).
Descending(t) == [k \in 1..Len(t) |-> t[Len(t) + 1 - k]]

\* .take(n)
Take(t, n) == SubSeq(t, 1, Min(n, Len(t)))

\* JavaScript truthiness of an optional string: undefined and "" are falsy.
TruthyString(opt) == opt # None /\ opt[1] # ""

\* getSecurityEvents({ limit, severity, eventType, resolved }): the events it
\* returns. The index is chosen by severity, else by eventType, else by
\* timestamp; take(limit || 100) cuts the index read; the resolved filter runs
\* on what was taken.
getSecurityEvents(db, args) ==
  LET BySeverity(e) == e.severity = args.severity[1]
      ByEventType(e) == e.eventType = args.eventType[1]
      Resolved(e) == args.resolved = None \/ e.resolved = args.resolved[1]
      limit == IF Truthy(args.limit) THEN args.limit[1] ELSE 100
      indexed == IF TruthyString(args.severity)
                 THEN SelectSeq(db.securityEvents, BySeverity)
                 ELSE IF TruthyString(args.eventType)
                 THEN SelectSeq(db.securityEvents, ByEventType)
                 ELSE db.securityEvents
  IN SelectSeq(Take(Descending(indexed), limit), Resolved)

-----------------------------------------------------------------------------
\* olderThanDays * 24 * 60 * 60 * 1000
DaysMs(olderThanDays) == olderThanDays * 24 * 60 * 60 * 1000

\* Mutant of cleanupOldRecords: the records at the cutoff deleted too.
cleanupOldRecordsInclusive(db, olderThanDays, t) ==
  LET cutoffTime == t - DaysMs(olderThanDays)
      KeepStamped(r) == r.timestamp > cutoffTime
      KeepSession(r) == r.lastActivity > cutoffTime
      events == SelectSeq(db.securityEvents, KeepStamped)
      audits == SelectSeq(db.requestAudit, KeepStamped)
      sessions == SelectSeq(db.userSessions, KeepSession)
  IN Outcome("success",
             Some([deletedEvents |-> Len(db.securityEvents) - Len(events),
                   deletedAudits |-> Len(db.requestAudit) - Len(audits),
                   deletedSessions |-> Len(db.userSessions) - Len(sessions)]),
             [db EXCEPT !.securityEvents = events, !.requestAudit = audits,
                        !.userSessions = sessions])

\* cleanupOldRecords({ olderThanDays }): the records a filter q.lt(field,
\* cutoffTime) collects are deleted, the others stay in their order.
cleanupOldRecords(db, olderThanDays, t) ==
  LET cutoffTime == t - DaysMs(olderThanDays)
      KeepStamped(r) == ~(r.timestamp < cutoffTime)
      KeepSession(r) == ~(r.lastActivity < cutoffTime)
      events == SelectSeq(db.securityEvents, KeepStamped)
      audits == SelectSeq(db.requestAudit, KeepStamped)
      sessions == SelectSeq(db.userSessions, KeepSession)
  IN Outcome("success",
             Some([deletedEvents |-> Len(db.securityEvents) - Len(events),
                   deletedAudits |-> Len(db.requestAudit) - Len(audits),
                   deletedSessions |-> Len(db.userSessions) - Len(sessions)]),
             [db EXCEPT !.securityEvents = events, !.requestAudit = audits,
                        !.userSessions = sessions])

-----------------------------------------------------------------------------
(* The state machine *)

\* The sessions of the model; each is also a browser client running the hook.
Clients == {"s1", "s2"}

\* src/types: COUNTER_NAME
COUNTER_NAME == GlobalCounter

\* Date.now() at the first call; any positive epoch offset serves.
StartTime == 1000000

\* The transaction slots of SpecConcurrent, and all of them free.
Slots == {1, 2}
Idle == [phase |-> "idle"]
NoneInFlight == [k \in Slots |-> Idle]

\* No executeWithRetry is running and none has run.
NoRetry == [phase |-> "idle", attempt |-> 0, op |-> "", args |-> <<>>, error |-> ""]

Init ==
  /\ now = StartTime
  /\ counters = <<>>
  /\ userSessions = <<>>
  /\ securityEvents = <<>>
  /\ requestAudit = <<>>
  /\ responses = <<>>
  /\ view = [c \in Clients |-> None]
  /\ retry = NoRetry
  /\ inflight = NoneInFlight

\* One handler run, `delay` ms after the previous one: the tables become the
\* outcome's and the caller gets the outcome.
Call(op, sessionId, args, delay, out) ==
  /\ now' = now + delay
  /\ counters' = out.db.counters
  /\ userSessions' = out.db.userSessions
  /\ securityEvents' = out.db.securityEvents
  /\ requestAudit' = out.db.requestAudit
  /\ responses' = Append(responses,
       [op |-> op, sessionId |-> sessionId, args |-> args, time |-> now + delay,
        result |-> out.result, returned |-> out.returned])
  /\ UNCHANGED <<view, inflight>>

\* A handler run called outside executeWithRetry.
Complete(op, sessionId, args, delay, out) ==
  Call(op, sessionId, args, delay, out) /\ UNCHANGED retry

Args(name, expectedVersion) == [name |-> name, expectedVersion |-> expectedVersion]

IncrementCounter(sessionId, name, expectedVersion, delay) ==
  Complete("increment", sessionId, Args(name, expectedVersion), delay,
           incrementCounter(Db, Args(name, expectedVersion), sessionId, now + delay))

DecrementCounter(sessionId, name, expectedVersion, delay) ==
  Complete("decrement", sessionId, Args(name, expectedVersion), delay,
           decrementCounter(Db, Args(name, expectedVersion), sessionId, now + delay))

ResetCounter(sessionId, name, delay) ==
  Complete("reset", sessionId, Args(name, None), delay,
           resetCounter(Db, Args(name, None), sessionId, now + delay))

InitializeCounter(name, delay) ==
  Complete("initialize", "", Args(name, None), delay,
           initializeCounter(Db, name, now + delay))

BlockSession(sessionId, duration, delay) ==
  Complete("blockSession", sessionId, [duration |-> duration], delay,
           blockSession(Db, sessionId, duration, now + delay))

UnblockSession(sessionId, delay) ==
  Complete("unblockSession", sessionId, Args(<<>>, None), delay,
           unblockSession(Db, sessionId, now + delay))

CleanupOldRecords(olderThanDays, delay) ==
  Complete("cleanupOldRecords", "", [olderThanDays |-> olderThanDays], delay,
           cleanupOldRecords(Db, olderThanDays, now + delay))

\* The admin dashboard's query: it reads, and the caller gets the list.
GetSecurityEvents(args, delay) ==
  Complete("getSecurityEvents", "", args, delay,
           Outcome("success", Some(getSecurityEvents(Db, args)), Db))

\* What the hook reads of a delivered counter (lastUpdated is only displayed).
Shown(counter) == [value |-> counter.value, version |-> counter.version]

\* The hook's useQuery(getCounter) delivering the counter to client c.
GetCounter(c, name) ==
  /\ view' = [view EXCEPT ![c] = Some(Shown(getCounter(Db, name, now)))]
  /\ UNCHANGED <<now, counters, userSessions, securityEvents, requestAudit, responses, retry,
                 inflight>>

-----------------------------------------------------------------------------
(* Spec: two browser clients driving the API through the useCounter hook.   *)
(* The hook initialises the counter while its query is still undefined,     *)
(* sends increment / decrement with expectedVersion = counter.version of    *)
(* the counter its query last delivered, and sends reset without a version. *)

\* Gaps between two handler runs: inside the automation threshold, and at the
\* rate-limit delay.
Delays == {10, 100}

HookVersion(c) == Some(view[c][1].version * ONE)

HookInitialize ==
  \E c \in Clients, d \in Delays :
    view[c] = None /\ InitializeCounter(COUNTER_NAME, d)

HookIncrement ==
  \E c \in Clients, d \in Delays :
    view[c] # None /\ IncrementCounter(c, COUNTER_NAME, HookVersion(c), d)

HookDecrement ==
  \E c \in Clients, d \in Delays :
    view[c] # None /\ DecrementCounter(c, COUNTER_NAME, HookVersion(c), d)

HookReset ==
  \E c \in Clients, d \in Delays : ResetCounter(c, COUNTER_NAME, d)

HookQuery == \E c \in Clients : GetCounter(c, COUNTER_NAME)

Next ==
  \/ HookQuery
  \/ Len(responses) < MaxOps /\ HookInitialize
  \/ Len(responses) < MaxOps /\ HookIncrement
  \/ Len(responses) < MaxOps /\ HookDecrement
  \/ Len(responses) < MaxOps /\ HookReset

Spec == Init /\ [][Next]_vars

-----------------------------------------------------------------------------
(* SpecApi: one session calling the mutations directly, with arguments the  *)
(* hook would not send, next to the admin's blockSession. The counter       *)
(* starts absent or one step inside a limit of its range.                   *)

ScriptName == <<"<", "s", "c", "r", "i", "p", "t", ">">>

\* A counter a long run has driven to `value` by |value| mutations of session
\* "s1"; cleanupOldRecords(0), run later, has emptied the other three tables.
DrivenCounter(value, version) ==
  [name |-> COUNTER_NAME, value |-> value, lastUpdated |-> StartTime - 1,
   version |-> version, lastModifiedBy |-> Some("s1")]

NearLimit == MAX_COUNTER_VALUE - 1

InitApi ==
  /\ now = StartTime
  /\ counters \in {<<>>, <<DrivenCounter(NearLimit, NearLimit)>>,
                   <<DrivenCounter(-NearLimit, NearLimit)>>}
  /\ userSessions = <<>>
  /\ securityEvents = <<>>
  /\ requestAudit = <<>>
  /\ responses = <<>>
  /\ view = [c \in Clients |-> None]
  /\ retry = NoRetry
  /\ inflight = NoneInFlight

\* expectedVersion arguments: none, 1 (ahead of a fresh counter, behind a driven
\* one) and the stored version
ApiVersions(name) ==
  LET i == CounterIndex(counters, name)
  IN {None, Some(ONE)}
     \cup (IF i = 0 THEN {} ELSE {Some(counters[i].version * ONE)})

\* arguments that fail validation: a name off the whitelist, an empty name, a
\* fractional and a negative version
InvalidArgs ==
  {Args(ScriptName, None), Args(<<>>, None),
   Args(COUNTER_NAME, Some(5)), Args(COUNTER_NAME, Some(-ONE))}

ApiIncrement ==
  \E ev \in ApiVersions(COUNTER_NAME), d \in Delays :
    IncrementCounter("s1", COUNTER_NAME, ev, d)

ApiDecrement ==
  \E ev \in ApiVersions(COUNTER_NAME), d \in Delays :
    DecrementCounter("s1", COUNTER_NAME, ev, d)

ApiReset == \E d \in Delays : ResetCounter("s1", COUNTER_NAME, d)

ApiInitialize ==
  \E name \in {COUNTER_NAME, ScriptName} : InitializeCounter(name, RATE_LIMIT_DELAY)

ApiInvalid ==
  \E a \in InvalidArgs :
    IncrementCounter("s1", a.name, a.expectedVersion, RATE_LIMIT_DELAY)

ApiBlock == BlockSession("s1", BLOCK_DURATION_BASE, RATE_LIMIT_DELAY)

NextApi ==
  \/ Len(responses) < MaxApiOps /\ ApiIncrement
  \/ Len(responses) < MaxApiOps /\ ApiDecrement
  \/ Len(responses) < MaxApiOps /\ ApiReset
  \/ Len(responses) < MaxApiOps /\ ApiInitialize
  \/ Len(responses) < MaxApiOps /\ ApiInvalid
  \/ Len(responses) < MaxApiOps /\ ApiBlock

SpecApi == InitApi /\ [][NextApi]_vars

-----------------------------------------------------------------------------
(* SpecAdmission: the admission state machine of one session, s1, under      *)
(* requests at every cadence the checks tell apart, invalid requests,        *)
(* requests the engine refuses, and the admin's blockSession /               *)
(* unblockSession. It starts from the empty tables, from the state s1 has    *)
(* reached by a first request and four more 10 ms apart (violationCount 4,   *)
(* one short of the threshold), from states in which admin blocks have       *)
(* raised violationCount further, or with the counter at its upper limit.    *)

\* Numbers of admin blocks behind the start states: the next violation of s1
\* is its 6th, 10th or 30th.
SeedBlocks == {5, 9, 29}

EmptyDb == [counters |-> <<>>, userSessions |-> <<>>,
            securityEvents |-> <<>>, requestAudit |-> <<>>]

\* The tables and the clock after s1 has sent increments, the first `Head(gaps)`
\* ms after time t and each next one that many ms after the one before.
RECURSIVE AfterRequests(_, _, _)
AfterRequests(db, t, gaps) ==
  IF gaps = <<>> THEN [db |-> db, now |-> t]
  ELSE AfterRequests(
         incrementCounter(db, Args(COUNTER_NAME, None), "s1", t + Head(gaps)).db,
         t + Head(gaps), Tail(gaps))

\* The tables after the admin has called blockSession for s1 `n` times at time
\* t, each block lasting SeedBlockDuration ms: violationCount has grown by n.
\* Each call sets isBlocked and blockUntil = t + duration anew, adds 1 to
\* violationCount and appends one admin_block event.
AfterBlocks(db, t, n) ==
  LET i == SessionIndex(db.userSessions, "s1")
      blocked == [db.userSessions[i] EXCEPT
                    !.isBlocked = TRUE,
                    !.blockUntil = Some(t + SeedBlockDuration),
                    !.violationCount = @ + n * ONE]
      events == [k \in 1..n |-> AdminEvent("s1", "admin_block", "high", t)]
  IN [db |-> [db EXCEPT !.userSessions[i] = blocked,
                        !.securityEvents = @ \o events],
      now |-> t]

\* s1 after one request and `n` admin blocks that have all but run out.
AdminBlocked(n) ==
  AfterBlocks(AfterRequests(EmptyDb, StartTime, <<0>>).db, StartTime, n)

AdmissionSeeds ==
  {AfterRequests(EmptyDb, StartTime, <<>>),
   AfterRequests(EmptyDb, StartTime, <<0, 10, 10, 10, 10>>)}
  \cup {AdminBlocked(n) : n \in SeedBlocks}
  \cup {AfterRequests([EmptyDb EXCEPT !.counters = <<DrivenCounter(NearLimit, NearLimit)>>],
                      StartTime, <<0>>)}

InitAdmission ==
  \E seed \in AdmissionSeeds :
    /\ now = seed.now
    /\ counters = seed.db.counters
    /\ userSessions = seed.db.userSessions
    /\ securityEvents = seed.db.securityEvents
    /\ requestAudit = seed.db.requestAudit
    /\ responses = <<>>
    /\ view = [c \in Clients |-> None]
    /\ retry = NoRetry
    /\ inflight = NoneInFlight

\* Gaps: inside the automation threshold, inside the rate-limit delay only, at
\* the delay, exactly one base block duration, and a day.
AdmissionDelays == {10, 60, RATE_LIMIT_DELAY, BLOCK_DURATION_BASE, MAX_BLOCK_DURATION}

\* Admin block durations: shorter than the rate-limit delay, and the base one.
AdminDurations == {AUTOMATION_DETECTION_THRESHOLD, BLOCK_DURATION_BASE}

AdmRequest ==
  \E d \in AdmissionDelays : IncrementCounter("s1", COUNTER_NAME, None, d)

AdmInvalid == IncrementCounter("s1", ScriptName, None, 10)

\* An expectedVersion no counter of the model has reached.
StaleVersion == Some(7 * ONE)

AdmStale == IncrementCounter("s1", COUNTER_NAME, StaleVersion, RATE_LIMIT_DELAY)

AdmReset == ResetCounter("s1", COUNTER_NAME, RATE_LIMIT_DELAY)

AdmBlock ==
  \E duration \in AdminDurations : BlockSession("s1", duration, RATE_LIMIT_DELAY)

AdmUnblock == UnblockSession("s1", RATE_LIMIT_DELAY)

NextAdmission ==
  \/ Len(responses) < MaxAdmissionOps /\ AdmRequest
  \/ Len(responses) < MaxAdmissionOps /\ AdmInvalid
  \/ Len(responses) < MaxAdmissionOps /\ AdmStale
  \/ Len(responses) < MaxAdmissionOps /\ AdmReset
  \/ Len(responses) < MaxAdmissionOps /\ AdmBlock
  \/ Len(responses) < MaxAdmissionOps /\ AdmUnblock

SpecAdmission == InitAdmission /\ [][NextAdmission]_vars

-----------------------------------------------------------------------------
(* src/hooks/useCounter.ts: executeWithRetry, and SpecRetry, in which client *)
(* s1 runs operations through it while client s2 increments the counter.     *)
(* The operation is a parameter of executeWithRetry: next to the closures    *)
(* the hook passes (the stored name with the version its query delivered)    *)
(* the model passes one that sends a name the validation refuses.            *)

\* The start of the message of the Error a handler throws for a result.
ErrorMessage(result) ==
  CASE result = "version_mismatch" -> "Version mismatch"
    [] result = "value_out_of_range" -> "Counter value would exceed allowed range"
    [] result = "counter_not_found" -> "Counter not found"
    [] result = "invalid_input" -> "Invalid counter name"
    [] result = "blocked" -> "Access blocked"
    [] result = "rate_limited" -> "Please slow down"
    [] OTHER -> ""

\* error.message.includes("Version mismatch")
MentionsVersionMismatch(message) == message = "Version mismatch"

\* Mutant of RetryOutcome: a version mismatch retried like any other error.
RetryOutcomeRetriesAll(run, result) ==
  LET attempt == run.attempt + 1
  IN IF result = "success"
     THEN [run EXCEPT !.phase = "returned", !.attempt = attempt]
     ELSE IF attempt = MAX_RETRY_ATTEMPTS
     THEN [run EXCEPT !.phase = "threw", !.attempt = attempt, !.error = result]
     ELSE [run EXCEPT !.attempt = attempt, !.error = result]

\* One turn of the loop of executeWithRetry: the run after the operation has
\* been called once more and has ended with `result`.
RetryOutcome(run, result) ==
  LET attempt == run.attempt + 1
  IN IF result = "success"
     THEN [run EXCEPT !.phase = "returned", !.attempt = attempt]
     ELSE IF MentionsVersionMismatch(ErrorMessage(result))
     THEN [run EXCEPT !.phase = "threw", !.attempt = attempt, !.error = result]
     ELSE IF attempt = MAX_RETRY_ATTEMPTS
     THEN [run EXCEPT !.phase = "threw", !.attempt = attempt, !.error = result]
     ELSE [run EXCEPT !.attempt = attempt, !.error = result]

\* Math.random() * 100, at its ends
Jitter == {0, 99}

\* The gap before the next call: any for the first, and after a failed attempt
\* baseDelay * 2^(attempt - 1) + jitter.
AttemptDelays(run) ==
  IF run.attempt = 0 THEN {10, RETRY_DELAY_MS}
  ELSE {RETRY_DELAY_MS * Pow(2, run.attempt - 1) + j : j \in Jitter}

\* The mutation an operation calls.
Handler(op, db, args, sessionId, t) ==
  CASE op = "increment" -> incrementCounter(db, args, sessionId, t)
    [] op = "decrement" -> decrementCounter(db, args, sessionId, t)
    [] op = "reset" -> resetCounter(db, args, sessionId, t)

\* The operations executeWithRetry is started with.
RetryOperations ==
  {[op |-> "increment", args |-> Args(ScriptName, None)]}
  \cup (IF view["s1"] = None THEN {}
        ELSE {[op |-> "increment", args |-> Args(COUNTER_NAME, HookVersion("s1"))],
              [op |-> "reset", args |-> Args(COUNTER_NAME, None)]})

RetryQuery == GetCounter("s1", COUNTER_NAME)

\* executeWithRetry(operation) is entered.
RetryStart ==
  /\ retry.phase # "running"
  /\ \E operation \in RetryOperations :
       retry' = [phase |-> "running", attempt |-> 0, op |-> operation.op,
                 args |-> operation.args, error |-> ""]
  /\ UNCHANGED <<now, counters, userSessions, securityEvents, requestAudit,
                 responses, view, inflight>>

\* try { return await operation() } catch ...
RetryAttempt ==
  /\ retry.phase = "running"
  /\ \E d \in AttemptDelays(retry) :
       LET out == Handler(retry.op, Db, retry.args, "s1", now + d)
       IN /\ Call(retry.op, "s1", retry.args, d, out)
          /\ retry' = RetryOutcome(retry, out.result)

RetryInterfere == IncrementCounter("s2", COUNTER_NAME, None, RATE_LIMIT_DELAY)

\* The calls the bound still allows beyond those the running loop may make.
Room ==
  MaxRetryOps - Len(responses)
  - (IF retry.phase = "running" THEN MAX_RETRY_ATTEMPTS - retry.attempt ELSE 0)

NextRetry ==
  \/ RetryQuery
  \/ Room >= MAX_RETRY_ATTEMPTS /\ RetryStart
  \/ RetryAttempt
  \/ Room >= 1 /\ RetryInterfere

\* The browser runs the loop on: a call settles and a sleep ends.
SpecRetry == Init /\ [][NextRetry]_vars /\ WF_vars(RetryAttempt)

-----------------------------------------------------------------------------
(* SpecEvents: session s1 sends requests, the admin blocks it, and the       *)
(* dashboard lists the security events under the filters of ListFilters.     *)

Filter(limit, severity, eventType, resolved) ==
  [limit |-> limit, severity |-> severity, eventType |-> eventType,
   resolved |-> resolved]

ListFilters ==
  {Filter(None, None, None, None),
   Filter(Some(1), None, None, None),
   Filter(None, Some("high"), None, None),
   Filter(None, None, Some("automation_detected"), None),
   Filter(None, Some("high"), Some("automation_detected"), None),
   Filter(None, None, None, Some(FALSE)),
   Filter(Some(1), None, None, Some(FALSE))}

EvRequest == \E d \in Delays : IncrementCounter("s1", COUNTER_NAME, None, d)

EvBlock == BlockSession("s1", BLOCK_DURATION_BASE, RATE_LIMIT_DELAY)

EvList == \E f \in ListFilters : GetSecurityEvents(f, RATE_LIMIT_DELAY)

NextEvents ==
  \/ Len(responses) < MaxEventOps /\ EvRequest
  \/ Len(responses) < MaxEventOps /\ EvBlock
  \/ Len(responses) < MaxEventOps /\ EvList

SpecEvents == Init /\ [][NextEvents]_vars

-----------------------------------------------------------------------------
(* SpecAdmin: two sessions sending requests next to the operations that are  *)
(* neither admission nor engine: initializeCounter and the admin's           *)
(* blockSession, unblockSession and cleanupOldRecords.                       *)

\* Gaps before a request: inside the automation threshold, and a day. The other
\* operations come RATE_LIMIT_DELAY after the one before.
AdminDelays == {10, MAX_BLOCK_DURATION}

\* olderThanDays arguments
CleanupDays == {0, 1}

AdminRequest ==
  \E c \in Clients, d \in AdminDelays : IncrementCounter(c, COUNTER_NAME, None, d)

AdminInitialize == InitializeCounter(COUNTER_NAME, RATE_LIMIT_DELAY)

AdminBlock ==
  \E c \in Clients : BlockSession(c, BLOCK_DURATION_BASE, RATE_LIMIT_DELAY)

AdminUnblock == \E c \in Clients : UnblockSession(c, RATE_LIMIT_DELAY)

AdminCleanup ==
  \E days \in CleanupDays, d \in {RATE_LIMIT_DELAY, MAX_BLOCK_DURATION} :
    CleanupOldRecords(days, d)

NextAdmin ==
  \/ Len(responses) < MaxAdminOps /\ AdminRequest
  \/ Len(responses) < MaxAdminOps /\ AdminInitialize
  \/ Len(responses) < MaxAdminOps /\ AdminBlock
  \/ Len(responses) < MaxAdminOps /\ AdminUnblock
  \/ Len(responses) < MaxAdminOps /\ AdminCleanup

SpecAdmin == Init /\ [][NextAdmin]_vars

-----------------------------------------------------------------------------
(* SpecBurst: one fresh session sending up to MaxBurstOps valid requests,    *)
(* each 10 ms or 100 ms after the one before.                                *)

BurstDelays == {10, RATE_LIMIT_DELAY}

BurstIncrement ==
  \E d \in BurstDelays : IncrementCounter("s1", COUNTER_NAME, None, d)

BurstDecrement == DecrementCounter("s1", COUNTER_NAME, None, 10)

NextBurst ==
  \/ Len(responses) < MaxBurstOps /\ BurstIncrement
  \/ Len(responses) < MaxBurstOps /\ BurstDecrement

SpecBurst == Init /\ [][NextBurst]_vars

-----------------------------------------------------------------------------
(* SpecConcurrent: increments of session s1 in flight at the same time. The  *)
(* storage layer runs a mutation as a transaction (section 5 of the spec):   *)
(* the handler reads the tables as they are when it starts, its inserts and  *)
(* patches are committed only if no record it has read has changed in the    *)
(* meantime, and otherwise the handler is run again from the start, 10 ms    *)
(* later.                                                                    *)

\* Gaps between two calls.
TxDelays == {10, 60, RATE_LIMIT_DELAY}

\* What an increment of `name` by `sessionId` reads: the records of the
\* by_session and by_name index ranges.
ReadSet(db, sessionId, name) ==
  [userSessions |-> SelectSeq(db.userSessions, LAMBDA r : r.sessionId = sessionId),
   counters |-> SelectSeq(db.counters, LAMBDA r : r.name = name)]

\* Mutant of TxConflict: the commit never checks what it has read.
TxConflictNever(txn) == FALSE

\* A record the transaction has read is no longer what it has read.
TxConflict(txn) ==
  ReadSet(txn.db, txn.sessionId, COUNTER_NAME) # ReadSet(Db, txn.sessionId, COUNTER_NAME)

\* A table after the writes of a handler that has taken it from `snapshot` to
\* `out`: the patched records replaced, the inserted ones appended.
Written(current, snapshot, out) ==
  [i \in 1..Len(current) |->
     IF i <= Len(snapshot) /\ out[i] # snapshot[i] THEN out[i] ELSE current[i]]
  \o SubSeq(out, Len(snapshot) + 1, Len(out))

\* The handler starts: it reads the clock and sees the tables as they are.
TxRun(k, sessionId, d, runs) ==
  /\ now' = now + d
  /\ inflight' = [inflight EXCEPT ![k] =
       [phase |-> "running", sessionId |-> sessionId, db |-> Db,
        time |-> now + d, runs |-> runs]]
  /\ UNCHANGED <<counters, userSessions, securityEvents, requestAudit,
                 responses, view, retry>>

\* incrementCounter is called.
TxBegin(k) ==
  /\ inflight[k].phase # "running"
  /\ \E d \in TxDelays : TxRun(k, "s1", d, 1)

\* The handler has run on what it has read, and its writes are committed.
TxCommit(k) ==
  /\ inflight[k].phase = "running"
  /\ ~TxConflict(inflight[k])
  /\ LET txn == inflight[k]
         args == Args(COUNTER_NAME, None)
         out == incrementCounter(txn.db, args, txn.sessionId, txn.time)
     IN /\ counters' = Written(counters, txn.db.counters, out.db.counters)
        /\ userSessions' =
             Written(userSessions, txn.db.userSessions, out.db.userSessions)
        /\ securityEvents' =
             Written(securityEvents, txn.db.securityEvents, out.db.securityEvents)
        /\ requestAudit' =
             Written(requestAudit, txn.db.requestAudit, out.db.requestAudit)
        /\ responses' = Append(responses,
             [op |-> "increment", sessionId |-> txn.sessionId, args |-> args,
              time |-> txn.time, result |-> out.result, returned |-> out.returned])
        /\ inflight' = [inflight EXCEPT ![k] = [txn EXCEPT !.phase = "committed"]]
  /\ UNCHANGED <<now, view, retry>>

\* What the handler has read has changed: it is run again.
TxRestart(k) ==
  /\ inflight[k].phase = "running"
  /\ TxConflict(inflight[k])
  /\ TxRun(k, inflight[k].sessionId, 10, inflight[k].runs + 1)

\* The calls begun so far.
TxBegun ==
  Len(responses) + Cardinality({k \in Slots : inflight[k].phase = "running"})

NextConcurrent ==
  \/ \E k \in Slots : TxBegun < MaxTxOps /\ TxBegin(k)
  \/ \E k \in Slots : TxCommit(k)
  \/ \E k \in Slots : TxRestart(k)

SpecConcurrent == Init /\ [][NextConcurrent]_vars

-----------------------------------------------------------------------------
(* SpecVolume: session s1 at the start and at the end of a full rate window. *)
(* It has sent its first increment or 99 increments 100 ms apart, all        *)
(* admitted; in the third start state the admin has then blocked it five     *)
(* times for 1 ms, so that its violationCount is at the threshold. The       *)
(* requests that follow come inside the automation threshold, inside the     *)
(* rate-limit delay, at the delay, which puts the 101st request at the very  *)
(* end of the window, or a minute later, in a new window.                    *)

\* The tables and the clock after s1 has sent n increments (1 <= n <= 100) to
\* the empty tables, the first at time t and each next one RATE_LIMIT_DELAY
\* after the one before: all are admitted inside one window, none is a
\* violation.
AfterSteadyRequests(t, n) ==
  LET at(k) == t + (k - 1) * RATE_LIMIT_DELAY
      args == Args(COUNTER_NAME, None)
  IN [db |->
        [counters |->
           <<[name |-> COUNTER_NAME, value |-> n, lastUpdated |-> at(n),
              version |-> n, lastModifiedBy |-> Some("s1")]>>,
         userSessions |->
           <<[NewSession("s1", t) EXCEPT !.lastActivity = at(n),
                                         !.requestCount = n]>>,
         securityEvents |-> <<>>,
         requestAudit |->
           [k \in 1..n |-> logRequest("s1", "increment", AuditInput(args),
                                      "success", at(k))]],
      now |-> at(n)]

\* One request short of the window's MAX_REQUESTS.
FullWindow == AfterSteadyRequests(StartTime, MAX_REQUESTS - 1)

VolumeSeeds ==
  {AfterSteadyRequests(StartTime, 1), FullWindow,
   AfterBlocks(FullWindow.db, FullWindow.now, VIOLATION_THRESHOLD)}

InitVolume ==
  \E seed \in VolumeSeeds :
    /\ now = seed.now
    /\ counters = seed.db.counters
    /\ userSessions = seed.db.userSessions
    /\ securityEvents = seed.db.securityEvents
    /\ requestAudit = seed.db.requestAudit
    /\ responses = <<>>
    /\ view = [c \in Clients |-> None]
    /\ retry = NoRetry
    /\ inflight = NoneInFlight

VolumeDelays == {10, 60, RATE_LIMIT_DELAY, BLOCK_DURATION_BASE}

VolumeRequest ==
  \E d \in VolumeDelays : IncrementCounter("s1", COUNTER_NAME, None, d)

VolumeDecrement == DecrementCounter("s1", COUNTER_NAME, None, RATE_LIMIT_DELAY)

NextVolume ==
  \/ Len(responses) < MaxVolumeOps /\ VolumeRequest
  \/ Len(responses) < MaxVolumeOps /\ VolumeDecrement

SpecVolume == InitVolume /\ [][NextVolume]_vars

\* The closed form against the handler run n times, for short runs.
SteadyAsRun ==
  \A n \in 1..6 :
    AfterSteadyRequests(StartTime, n) =
      AfterRequests(EmptyDb, StartTime,
                    [k \in 1..n |-> IF k = 1 THEN 0 ELSE RATE_LIMIT_DELAY])

-----------------------------------------------------------------------------
(* SpecDecay: the decay of violationCount in the arithmetic of the code.     *)
(* violationCount is a JavaScript number, an IEEE 754 double, and 0.1 is not *)
(* one: the literal 0.1 is the double 3602879701896397 * 2^-55. Every value  *)
(* the decay reaches from a whole count is a multiple of 2^-55; in this      *)
(* specification the violationCount field holds that multiple, written in    *)
(* three digits of base 2^20, most significant first.                        *)

Limb == 2^20

\* The double nearest to 0.1, and the doubles 0 and k for a whole k < 8.
TenthDouble == <<3276, 838860, 838861>>
ZeroDouble == <<0, 0, 0>>
WholeDouble(k) == <<k * 2^15, 0, 0>>

\* a < b
LessDouble(a, b) ==
  \/ a[1] < b[1]
  \/ a[1] = b[1] /\ a[2] < b[2]
  \/ a[1] = b[1] /\ a[2] = b[2] /\ a[3] < b[3]

\* Digits that may have left 0..Limb-1 by one carry or borrow, put right.
Carried(a) ==
  LET lo == a[3]
      c3 == IF lo < 0 THEN -1 ELSE IF lo >= Limb THEN 1 ELSE 0
      mid == a[2] + c3
      c2 == IF mid < 0 THEN -1 ELSE IF mid >= Limb THEN 1 ELSE 0
  IN <<a[1] + c2, mid - c2 * Limb, lo - c3 * Limb>>

\* The number of binary digits of n < Limb, and of a value.
BitLen(n) == IF n = 0 THEN 0 ELSE CHOOSE k \in 1..20 : 2^(k - 1) <= n /\ n < 2^k
BitLength(a) ==
  IF a[1] > 0 THEN 40 + BitLen(a[1])
  ELSE IF a[2] > 0 THEN 20 + BitLen(a[2])
  ELSE BitLen(a[3])

\* Round to nearest, ties to even, to the 53 significant binary digits a
\* double holds. The exact values met here have 58 digits at most.
RoundDouble(a) ==
  LET excess == BitLength(a) - 53
  IN IF excess <= 0 THEN a
     ELSE LET unit == 2^excess
              rest == a[3] % unit
              down == a[3] - rest
              odd == (down \div unit) % 2 = 1
              up == rest * 2 > unit \/ (rest * 2 = unit /\ odd)
          IN Carried(<<a[1], a[2], IF up THEN down + unit ELSE down>>)

\* Mutant of DecayedDouble: violationCount left out of the patch.
DecayedDoubleKept(v) == v

\* Math.max(0, violationCount - 0.1)
DecayedDouble(v) ==
  IF LessDouble(v, TenthDouble) THEN ZeroDouble
  ELSE RoundDouble(Carried(Carried(<<v[1] - TenthDouble[1], v[2] - TenthDouble[2],
                                     v[3] - TenthDouble[3]>>)))

\* The tables with the violationCount of every session replaced by `count`.
WithCount(db, count) ==
  [db EXCEPT !.userSessions =
     [i \in 1..Len(db.userSessions) |->
        [db.userSessions[i] EXCEPT !.violationCount = count]]]

\* Whole violation counts an unblocked session can hold: below the threshold.
DecaySeeds ==
  {AfterRequests(EmptyDb, StartTime, <<0>> \o [k \in 1..v |-> 10]) :
     v \in 1..(VIOLATION_THRESHOLD - 1)}

\* s1 has sent its first request and then v requests 10 ms apart, each
\* counted as one violation with one security event.
InitDecay ==
  \E seed \in DecaySeeds :
    /\ now = seed.now
    /\ counters = seed.db.counters
    /\ userSessions =
         WithCount(seed.db, WholeDouble(seed.db.userSessions[1].violationCount \div ONE)).userSessions
    /\ securityEvents = seed.db.securityEvents
    /\ requestAudit = seed.db.requestAudit
    /\ responses = <<>>
    /\ view = [c \in Clients |-> None]
    /\ retry = NoRetry
    /\ inflight = NoneInFlight

\* A compliant increment of s1, RATE_LIMIT_DELAY after the request before:
\* the handler admits it whatever the count (the count is read only by the
\* violation branches) and its patch writes the decayed double.
DecayRequest ==
  LET args == Args(COUNTER_NAME, None)
      out == incrementCounter(WithCount(Db, 0), args, "s1", now + RATE_LIMIT_DELAY)
  IN /\ out.result = "success"
     /\ Complete("increment", "s1", args, RATE_LIMIT_DELAY,
                 [out EXCEPT !.db = WithCount(out.db,
                     DecayedDouble(userSessions[1].violationCount))])

NextDecay == Len(responses) < MaxDecayOps /\ DecayRequest

SpecDecay == InitDecay /\ [][NextDecay]_vars

-----------------------------------------------------------------------------
(* Vocabulary of the properties *)

\* A handler ran in this step, and what its caller got.
Called == Len(responses') = Len(responses) + 1
New == responses'[Len(responses')]
Last == responses[Len(responses)]

\* The results with which the admission controller turns a request away.
AdmissionDenials == {"invalid_input", "rate_limited", "blocked"}
Mutations == {"increment", "decrement", "reset"}

\* The version of the counter called `name`, an absent one counting as 0.
StoredVersion(table, name) ==
  IF CounterIndex(table, name) = 0 THEN 0
  ELSE table[CounterIndex(table, name)].version

LastAudit(table) == table[Len(table)]

-----------------------------------------------------------------------------
(* Properties of the counter engine *)

C4_ValueInRange ==
  \A i \in 1..Len(counters) :
    /\ counters[i].value >= MIN_COUNTER_VALUE
    /\ counters[i].value <= MAX_COUNTER_VALUE

\* The counter stands at a limit and the engine has just refused to go past it.
C4_Witness ==
  /\ Len(responses) > 0
  /\ Last.result = "value_out_of_range"
  /\ \E i \in 1..Len(counters) :
       counters[i].value \in {MIN_COUNTER_VALUE, MAX_COUNTER_VALUE}

\* The names requests carry in SpecApi.
ApiNames == {COUNTER_NAME, ScriptName, <<>>}

\* C5: a counter's version never decreases; a record initializeCounter creates
\* starts at version 0; a successful increment, decrement or reset raises the
\* version of its counter by exactly 1 (an absent counter counting as version
\* 0); every other call, denied or failed, leaves every version unchanged.
C5_VersionMonotonic ==
  [][/\ \A name \in ApiNames :
          LET before == StoredVersion(counters, name)
              after == StoredVersion(counters', name)
          IN /\ after >= before
             /\ IF Called /\ New.op \in Mutations /\ New.args.name = name
                   /\ New.result = "success"
                THEN after = before + 1
                ELSE after = before
     /\ (Called /\ New.op = "initialize" /\ Len(counters') > Len(counters)) =>
          counters'[Len(counters')].version = 0
    ]_vars

\* A version has grown by successes and stood still through a denial and a
\* failure.
C5_Witness ==
  /\ \E k \in 1..Len(responses) :
       responses[k].op \in Mutations /\ responses[k].result = "success"
       /\ responses[k].returned[1].version > 1
  /\ \E k \in 1..Len(responses) : responses[k].result \in AdmissionDenials
  /\ \E k \in 1..Len(responses) :
       responses[k].result \in {"version_mismatch", "value_out_of_range"}

\* C6: no two counter records have the same name.
C6_OneRecordPerName ==
  \A i, j \in 1..Len(counters) : counters[i].name = counters[j].name => i = j

\* An increment created the counter from a view taken while it was absent, and
\* initializeCounter and a decrement for the same name ran after it.
C6_Witness ==
  /\ Len(responses) >= 3
  /\ responses[1].op = "increment" /\ responses[1].result = "success"
  /\ \E k \in 2..Len(responses) : responses[k].op = "initialize"
  /\ \E k \in 2..Len(responses) : responses[k].op = "decrement"
  /\ Len(counters) = 1

\* C7: an admitted increment or decrement whose expectedVersion differs from
\* the stored version of the existing counter fails with version_mismatch,
\* appends one audit entry with result version_mismatch and leaves the counters
\* table as it was.
C7_VersionMismatch ==
  [][(/\ Called /\ New.op \in {"increment", "decrement"}
      /\ New.result \notin AdmissionDenials
      /\ CounterIndex(counters, New.args.name) # 0
      /\ New.args.expectedVersion # None
      /\ New.args.expectedVersion[1] # StoredVersion(counters, New.args.name) * ONE) =>
       /\ New.result = "version_mismatch"
       /\ counters' = counters
       /\ requestAudit' =
            Append(requestAudit,
                   logRequest(New.sessionId, New.op, New.args, "version_mismatch", now'))
    ]_vars

\* A request carrying a version ahead of the stored one was refused, and one
\* carrying a version behind it.
C7_Witness ==
  /\ \E k \in 1..Len(responses) :
       /\ responses[k].result = "version_mismatch"
       /\ responses[k].args.expectedVersion[1] > StoredVersion(counters, COUNTER_NAME) * ONE
  /\ Len(requestAudit) > 0
  /\ LastAudit(requestAudit).result = "version_mismatch"

\* An earlier call k succeeded with the operation, session and arguments of the
\* call of this step; for increment and decrement it carried the version v it
\* moved the counter from (it returned version v+1).
Repeats(k) ==
  /\ responses[k].op = New.op
  /\ responses[k].sessionId = New.sessionId
  /\ responses[k].args = New.args
  /\ responses[k].result = "success"
  /\ New.op # "reset" =>
       /\ New.args.expectedVersion # None
       /\ New.args.expectedVersion[1] = (responses[k].returned[1].version - 1) * ONE

\* C8 as stated: for increment, decrement and reset, an admitted repetition of
\* a call that has succeeded fails with version_mismatch and changes no counter.
C8_AsStated ==
  [][(/\ Called /\ New.op \in Mutations
      /\ New.result \notin AdmissionDenials
      /\ \E k \in 1..Len(responses) : Repeats(k)) =>
       /\ New.result = "version_mismatch"
       /\ counters' = counters
    ]_vars

\* C8, amended: for increment and decrement, an admitted repetition of a call
\* that has succeeded with expectedVersion v fails with version_mismatch and
\* changes no counter.
C8_StaleRetryFails ==
  [][(/\ Called /\ New.op \in {"increment", "decrement"}
      /\ New.result \notin AdmissionDenials
      /\ \E k \in 1..Len(responses) : Repeats(k)) =>
       /\ New.result = "version_mismatch"
       /\ counters' = counters
    ]_vars

\* A decrement succeeded and the same session sent it again with the same
\* expectedVersion: the repetition was refused with version_mismatch.
C8_Witness ==
  /\ Len(responses) >= 2
  /\ Last.op = "decrement" /\ Last.result = "version_mismatch"
  /\ \E k \in 1..(Len(responses) - 1) :
       /\ responses[k].op = "decrement" /\ responses[k].result = "success"
       /\ responses[k].sessionId = Last.sessionId
       /\ responses[k].args = Last.args
       /\ Last.args.expectedVersion =
            Some((responses[k].returned[1].version - 1) * ONE)

\* C9: on an absent counter an admitted increment creates and returns value 1 /
\* version 1, an admitted decrement value -1 / version 1, and an admitted reset
\* fails with counter_not_found, audits it and creates nothing.
C9_AbsentCounter ==
  [][(/\ Called /\ New.op \in Mutations
      /\ New.result \notin AdmissionDenials
      /\ CounterIndex(counters, New.args.name) = 0) =>
       IF New.op = "reset" THEN
         /\ New.result = "counter_not_found"
         /\ counters' = counters
         /\ LastAudit(requestAudit').result = "counter_not_found"
       ELSE
         LET created == [name |-> New.args.name,
                         value |-> IF New.op = "increment" THEN 1 ELSE -1,
                         lastUpdated |-> now', version |-> 1,
                         lastModifiedBy |-> Some(New.sessionId)]
         IN /\ New.result = "success"
            /\ New.returned = Some(created)
            /\ counters' = Append(counters, created)
    ]_vars

\* A reset found no counter, and the decrement after it created the counter at
\* value -1 / version 1.
C9_Witness ==
  /\ Len(responses) = 2
  /\ responses[1].op = "reset" /\ responses[1].result = "counter_not_found"
  /\ responses[2].op = "decrement" /\ responses[2].result = "success"
  /\ Len(counters) = 1
  /\ counters[1].value = -1 /\ counters[1].version = 1

\* The request of this step carries a name or an expectedVersion one of the
\* validation functions turns down.
FailsValidation(args) ==
  \/ ~validateCounterName(args.name).isValid
  \/ args.expectedVersion # None /\ ~validateVersion(args.expectedVersion[1]).isValid

\* What C10 asks of a rejected request: invalid_input to the caller, one
\* invalid_input event of severity medium, one audit entry invalid_input, and
\* the counters and sessions as they were.
RejectedAsInvalid ==
  /\ New.result = "invalid_input"
  /\ securityEvents' =
       Append(securityEvents,
              logSecurityEvent(New.sessionId, "invalid_input", "medium", now'))
  /\ requestAudit' =
       Append(requestAudit,
              logRequest(New.sessionId, New.op, New.args, "invalid_input", now'))
  /\ counters' = counters
  /\ userSessions' = userSessions

\* C10 as stated: every mutating request whose name or expectedVersion fails
\* validation is rejected as invalid input, logged once in each log, and
\* touches no counter and no session.
C10_AsStated ==
  [][(Called /\ New.op \in Mutations /\ FailsValidation(New.args)) =>
       RejectedAsInvalid
    ]_vars

\* What the code does keep of C10: the rejection and its logging for every
\* failing request whose name is not the empty string.
C10_NonEmptyNameRejected ==
  [][(Called /\ New.op \in Mutations /\ FailsValidation(New.args)
      /\ New.args.name # <<>>) =>
       RejectedAsInvalid
    ]_vars

-----------------------------------------------------------------------------
(* Properties of the admission controller *)

\* The stored record of the session whose request this step serves.
Caller == userSessions[SessionIndex(userSessions, New.sessionId)]
CallerAfter == userSessions'[SessionIndex(userSessions', New.sessionId)]

\* This step serves a mutating request of a session stored as blocked, with
\* blockUntil set.
BlockedCall ==
  /\ Called /\ New.op \in Mutations
  /\ SessionIndex(userSessions, New.sessionId) # 0
  /\ Caller.isBlocked /\ Caller.blockUntil # None

\* The security event a step appended last.
NewEvent == securityEvents'[Len(securityEvents')]

C3_ViolationCountNonNegative ==
  \A i \in 1..Len(userSessions) : userSessions[i].violationCount >= 0

\* After a denied request and an admin unblock an admitted request has decayed
\* a violationCount of 0, which stayed 0.
C3_Witness ==
  /\ Len(responses) >= 3
  /\ Last.op = "increment" /\ Last.result = "success"
  /\ \E k \in 1..Len(responses) : responses[k].result = "rate_limited"
  /\ responses[Len(responses) - 1].op = "unblockSession"
  /\ \E i \in 1..Len(userSessions) : userSessions[i].violationCount = 0

-----------------------------------------------------------------------------
(* Properties of the name whitelist *)

\* C11 as stated: every increment, decrement or reset whose name is not
\* exactly "global-counter", the empty name included, is answered
\* invalid_input and reaches neither the session table nor the counters.
C11_AsStated ==
  [][(Called /\ New.op \in Mutations /\ New.args.name # GlobalCounter) =>
       /\ New.result = "invalid_input"
       /\ userSessions' = userSessions
       /\ counters' = counters
    ]_vars

-----------------------------------------------------------------------------
(* Properties of the block duration *)

\* This step is a block imposed by the admission controller: a mutating
\* request answered "blocked" with a "blocked" event.
ControllerBlocks ==
  /\ Called /\ New.op \in Mutations /\ New.result = "blocked"
  /\ Len(securityEvents') > Len(securityEvents)
  /\ NewEvent.eventType = "blocked"

\* min(60000 * 2^(n - 5), 86400000) for a whole violation count n >= 5, as section
\* 4.3 writes the formula; 2^11 base durations are already over the cap.
FormulaDuration(n) ==
  IF n - 5 > 10 THEN 86400000
  ELSE Min(60000 * Pow(2, n - 5), 86400000)

\* C12: when the controller blocks a session, the violationCount v stored with
\* the block is at least 5 and blockUntil - now is min(60000 * 2^(v-5), 86400000):
\* exactly that for a whole v, and between the values of the two neighbouring
\* whole counts for a fractional v; so the block lasts from 60 s to 24 h.
C12_BlockDuration ==
  [][ControllerBlocks =>
       LET v == CallerAfter.violationCount
           d == CallerAfter.blockUntil[1] - now'
           n == v \div ONE
       IN /\ CallerAfter.isBlocked
          /\ v >= 5 * ONE
          /\ d >= 60000 /\ d <= 86400000
          /\ IsInteger(v) => d = FormulaDuration(n)
          /\ ~IsInteger(v) => d >= FormulaDuration(n) /\ d <= FormulaDuration(n + 1)
    ]_vars

\* The controller has blocked s1 at the fractional count 5.9 for between 60 s
\* and 120 s.
C12_Witness ==
  /\ Len(responses) > 0 /\ Last.result = "blocked"
  /\ \E i \in 1..Len(userSessions) :
       /\ userSessions[i].isBlocked
       /\ userSessions[i].violationCount = 59
       /\ userSessions[i].lastActivity = now
       /\ userSessions[i].blockUntil[1] - now > 60000
       /\ userSessions[i].blockUntil[1] - now < 120000

\* The duration of the block this step imposed.
ImposedDuration == CallerAfter.blockUntil[1] - now'

\* C13 as stated: the block for violationCount 5 lasts 60000 ms, for 6 120000
\* ms, for 10 960000 ms and for 30 86400000 ms.
C13_AsStated ==
  [][ControllerBlocks =>
       /\ CallerAfter.violationCount = 5 * ONE => ImposedDuration = 60000
       /\ CallerAfter.violationCount = 6 * ONE => ImposedDuration = 120000
       /\ CallerAfter.violationCount = 10 * ONE => ImposedDuration = 960000
       /\ CallerAfter.violationCount = 30 * ONE => ImposedDuration = 86400000
    ]_vars

\* C13, amended: the block for violationCount 5 lasts 60000 ms, for 6 120000
\* ms, for 10 1920000 ms (60000 * 2^5) and for 30 86400000 ms (capped).
C13_DurationExamples ==
  [][ControllerBlocks =>
       /\ CallerAfter.violationCount = 5 * ONE => ImposedDuration = 60000
       /\ CallerAfter.violationCount = 6 * ONE => ImposedDuration = 120000
       /\ CallerAfter.violationCount = 10 * ONE => ImposedDuration = 1920000
       /\ CallerAfter.violationCount = 30 * ONE => ImposedDuration = 86400000
    ]_vars

\* The controller has blocked s1 at violationCount 10 for 1920000 ms.
C13_Witness ==
  /\ Len(responses) > 0 /\ Last.result = "blocked"
  /\ \E i \in 1..Len(userSessions) :
       /\ userSessions[i].isBlocked
       /\ userSessions[i].violationCount = 10 * ONE
       /\ userSessions[i].lastActivity = now
       /\ userSessions[i].blockUntil = Some(now + 1920000)

-----------------------------------------------------------------------------
(* Properties of a burst *)

\* The first k calls were requests of one session, each from the second on
\* 10 ms after the one before.
Burst(k) ==
  /\ k <= Len(responses)
  /\ \A j \in 1..k : responses[j].op \in Mutations /\ responses[j].sessionId = "s1"
  /\ \A j \in 2..k : responses[j].time = responses[j - 1].time + 10

\* A security event of one of `types` was logged for s1 at the time of call k.
EventAt(k, types) ==
  \E e \in 1..Len(securityEvents) :
    /\ securityEvents[e].sessionId = "s1"
    /\ securityEvents[e].timestamp = responses[k].time
    /\ securityEvents[e].eventType \in types

\* C14: of up to ten valid requests of a fresh session 10 ms apart the first
\* is admitted; the 2nd to the 6th each log a violation; the 2nd to the 5th are
\* answered rate_limited; the 6th, the 5th violation, is answered blocked with
\* a blocked event of severity critical or high and leaves violationCount at 5
\* or more; the 7th to the 10th are answered blocked.
C14_Burst ==
  \A k \in 1..Len(responses) :
    Burst(k) =>
      /\ k = 1 => responses[k].result \notin AdmissionDenials
      /\ k \in 2..6 => EventAt(k, {"automation_detected", "rate_limit"})
      /\ k \in 2..5 => responses[k].result = "rate_limited"
      /\ k = 6 =>
           /\ responses[k].result = "blocked"
           /\ \E e \in 1..Len(securityEvents) :
                /\ securityEvents[e].eventType = "blocked"
                /\ securityEvents[e].timestamp = responses[k].time
                /\ securityEvents[e].severity \in {"critical", "high"}
           /\ \E i \in 1..Len(userSessions) :
                /\ userSessions[i].sessionId = "s1"
                /\ userSessions[i].violationCount >= 5 * ONE
      /\ k \in 7..10 => responses[k].result = "blocked"

\* Ten requests 10 ms apart have been answered, the last four as blocked.
C14_Witness ==
  /\ Len(responses) = 10 /\ Burst(10)
  /\ \A k \in 7..10 : responses[k].result = "blocked"
  /\ \E i \in 1..Len(userSessions) :
       userSessions[i].isBlocked /\ userSessions[i].violationCount = 5 * ONE

-----------------------------------------------------------------------------
(* Properties of the session record *)

\* C15: every stored session with isBlocked = true has blockUntil set.
C15_BlockedHasExpiry ==
  \A i \in 1..Len(userSessions) :
    userSessions[i].isBlocked => userSessions[i].blockUntil # None

\* The controller blocked s1, the block ran out and a request lifted it, the
\* admin unblocked and then blocked s1: it is stored blocked with its end time.
C15_Witness ==
  /\ Len(responses) = 4
  /\ responses[1].op \in Mutations /\ responses[1].result = "blocked"
  /\ responses[2].op \in Mutations /\ responses[2].result = "success"
  /\ responses[3].op = "unblockSession"
  /\ responses[4].op = "blockSession"
  /\ \E i \in 1..Len(userSessions) :
       userSessions[i].isBlocked /\ userSessions[i].blockUntil # None

-----------------------------------------------------------------------------
(* Properties of the error paths *)

\* The results that are errors, and the security-relevant ones among them.
Errors ==
  {"invalid_input", "rate_limited", "blocked", "version_mismatch",
   "value_out_of_range", "counter_not_found"}

\* This step served a mutating request that ended in an error.
FailedCall == Called /\ New.op \in Mutations /\ New.result \in Errors

\* This step appended exactly one audit entry, the one of the request served.
OneAudit ==
  /\ Len(requestAudit') = Len(requestAudit) + 1
  /\ \A k \in 1..Len(requestAudit) : requestAudit'[k] = requestAudit[k]
  /\ LastAudit(requestAudit').sessionId = New.sessionId
  /\ LastAudit(requestAudit').action = New.op
  /\ LastAudit(requestAudit').result = New.result
  /\ LastAudit(requestAudit').timestamp = now'

\* This step appended exactly n security events.
NewEvents(n) ==
  /\ Len(securityEvents') = Len(securityEvents) + n
  /\ \A k \in 1..Len(securityEvents) : securityEvents'[k] = securityEvents[k]

\* C16 as stated: every request that ends in an error appends exactly one
\* audit entry, and every one that ends in invalid_input, rate_limited or
\* blocked appends exactly one security event.
C16_AsStated ==
  [][FailedCall =>
       /\ OneAudit
       /\ New.result \in AdmissionDenials => NewEvents(1)
    ]_vars

\* C16, amended: every request that ends in an error appends exactly one audit
\* entry; invalid_input, rate_limited and the denial of a session still
\* blocked append exactly one security event; the request that gets a session
\* blocked appends two, the violation and "blocked"; the engine's errors
\* append none.
C16_ErrorsLogged ==
  [][FailedCall =>
       /\ OneAudit
       /\ New.result \in {"invalid_input", "rate_limited"} => NewEvents(1)
       /\ New.result = "blocked" =>
            IF userSessions' = userSessions
            THEN /\ NewEvents(1)
                 /\ NewEvent.eventType = "blocked_access_attempt"
            ELSE /\ NewEvents(2)
                 /\ securityEvents'[Len(securityEvents') - 1].eventType
                      \in {"automation_detected", "rate_limit", "ddos_attempt"}
                 /\ NewEvent.eventType = "blocked"
       /\ New.result \notin AdmissionDenials => NewEvents(0)
    ]_vars

\* A request was refused by the engine with version_mismatch, and the last
\* request got its session blocked, which logged a violation and "blocked".
C16_Witness ==
  /\ Len(responses) >= 2
  /\ \E k \in 1..Len(responses) : responses[k].result = "version_mismatch"
  /\ Last.result = "blocked"
  /\ Len(securityEvents) >= 2
  /\ securityEvents[Len(securityEvents)].eventType = "blocked"
  /\ securityEvents[Len(securityEvents)].timestamp = now
  /\ securityEvents[Len(securityEvents) - 1].eventType = "automation_detected"
  /\ securityEvents[Len(securityEvents) - 1].timestamp = now
  /\ requestAudit[Len(requestAudit)].result = "blocked"

-----------------------------------------------------------------------------
(* Properties of the operations beside admission and engine *)

\* isBlocked, blockUntil and violationCount of a session record
BlockFields(r) == <<r.isBlocked, r.blockUntil, r.violationCount>>

Known(table, s) == SessionIndex(table, s) # 0
SessionOf(table, s) == table[SessionIndex(table, s)]

\* This step changed a block field of the stored session s, or stored s anew.
BlockFieldsWritten(s) ==
  /\ Known(userSessions', s)
  /\ Known(userSessions, s) =>
       BlockFields(SessionOf(userSessions', s)) # BlockFields(SessionOf(userSessions, s))

\* This step wrote the value or version of a counter record, or a new record.
CounterWritten ==
  \E i \in 1..Len(counters') :
    \/ i > Len(counters)
    \/ counters'[i].value # counters[i].value
    \/ counters'[i].version # counters[i].version

\* C17 as stated: only the admission controller, which runs inside increment,
\* decrement and reset, changes a session's isBlocked, blockUntil or
\* violationCount, and only increment, decrement and reset write a counter's
\* value or version.
C17_AsStated ==
  [][/\ \A s \in Clients :
          BlockFieldsWritten(s) => Called /\ New.op \in Mutations /\ New.sessionId = s
     /\ CounterWritten => Called /\ New.op \in Mutations
    ]_vars

\* C17, amended: a session's isBlocked, blockUntil and violationCount are
\* changed only by a request of that session passing the admission controller
\* and by the admin's blockSession / unblockSession for that session; a session
\* record is created only by its own request and removed only by
\* cleanupOldRecords; a counter's value and version are written only by
\* increment, decrement and reset, and by initializeCounter creating the
\* record at value 0 / version 0.
C17_Ownership ==
  [][/\ \A s \in Clients :
          /\ (Known(userSessions, s) /\ BlockFieldsWritten(s)) =>
               /\ Called /\ New.sessionId = s
               /\ New.op \in Mutations \cup {"blockSession", "unblockSession"}
          /\ (~Known(userSessions, s) /\ Known(userSessions', s)) =>
               Called /\ New.sessionId = s /\ New.op \in Mutations
          /\ (Known(userSessions, s) /\ ~Known(userSessions', s)) =>
               Called /\ New.op = "cleanupOldRecords"
     /\ CounterWritten =>
          /\ Called
          /\ \/ New.op \in Mutations
             \/ /\ New.op = "initialize"
                /\ Len(counters') = Len(counters) + 1
                /\ \A i \in 1..Len(counters) : counters'[i] = counters[i]
                /\ counters'[Len(counters')].value = 0
                /\ counters'[Len(counters')].version = 0
    ]_vars

\* initializeCounter created the counter, and the admin's blockSession has
\* blocked a session and raised its violationCount to 1.
C17_Witness ==
  /\ Len(responses) >= 3
  /\ responses[1].op = "initialize"
  /\ Len(counters) = 1
  /\ Last.op = "blockSession"
  /\ Known(userSessions, Last.sessionId)
  /\ SessionOf(userSessions, Last.sessionId).isBlocked
  /\ SessionOf(userSessions, Last.sessionId).violationCount = ONE
  /\ SessionOf(userSessions, Last.sessionId).blockUntil = Some(now + BLOCK_DURATION_BASE)

\* The number of records of table t whose `field` is below the cutoff.
OlderThan(t, field, cutoff) == Cardinality({k \in 1..Len(t) : t[k][field] < cutoff})

\* C18: cleanupOldRecords(d) deletes exactly the events and audit entries whose
\* timestamp, and the sessions whose lastActivity, is before now - d days, keeps
\* every other record as it was, returns the three numbers deleted, and leaves
\* the counters alone.
C18_Cleanup ==
  [][(Called /\ New.op = "cleanupOldRecords") =>
       LET cutoff == now' - New.args.olderThanDays * 86400000
           Recent(r) == r.timestamp >= cutoff
           Active(r) == r.lastActivity >= cutoff
       IN /\ securityEvents' = SelectSeq(securityEvents, Recent)
          /\ requestAudit' = SelectSeq(requestAudit, Recent)
          /\ userSessions' = SelectSeq(userSessions, Active)
          /\ counters' = counters
          /\ New.returned =
               Some([deletedEvents |-> OlderThan(securityEvents, "timestamp", cutoff),
                     deletedAudits |-> OlderThan(requestAudit, "timestamp", cutoff),
                     deletedSessions |-> OlderThan(userSessions, "lastActivity", cutoff)])
          /\ New.returned[1].deletedEvents = Len(securityEvents) - Len(securityEvents')
          /\ New.returned[1].deletedAudits = Len(requestAudit) - Len(requestAudit')
          /\ New.returned[1].deletedSessions = Len(userSessions) - Len(userSessions')
    ]_vars

\* cleanupOldRecords(1) has deleted an event, two audit entries and a session
\* and has kept the session and the audit entry that were newer than a day.
C18_Witness ==
  /\ Len(responses) > 0
  /\ Last.op = "cleanupOldRecords" /\ Last.args.olderThanDays = 1
  /\ Last.returned = Some([deletedEvents |-> 1, deletedAudits |-> 2,
                           deletedSessions |-> 1])
  /\ Len(userSessions) = 1 /\ userSessions[1].lastActivity >= now - 86400000
  /\ Len(requestAudit) = 1 /\ requestAudit[1].timestamp >= now - 86400000
  /\ securityEvents = <<>>

\* C19 as stated: once blockSession(s, duration) with duration > 0 has run at
\* time t, an admin_block event for s is on record, and every later mutating
\* request of s before t + duration is answered blocked.
C19_AsStated ==
  \A k \in 1..Len(responses) :
    (responses[k].op = "blockSession" /\ responses[k].args.duration > 0) =>
      /\ k = Len(responses) =>
           \E e \in 1..Len(securityEvents) :
             /\ securityEvents[e].eventType = "admin_block"
             /\ securityEvents[e].sessionId = responses[k].sessionId
             /\ securityEvents[e].timestamp = responses[k].time
      /\ \A j \in (k + 1)..Len(responses) :
           (/\ responses[j].op \in Mutations
            /\ responses[j].sessionId = responses[k].sessionId
            /\ responses[j].time < responses[k].time + responses[k].args.duration) =>
             responses[j].result = "blocked"

\* What the code does keep of C19: blockSession for a session that has a record
\* stores the block until t + duration and logs admin_block, and the next
\* request of that session before t + duration is answered blocked.
C19_KnownSessionBlocked ==
  [][/\ (/\ Called /\ New.op = "blockSession"
         /\ Known(userSessions, New.sessionId)) =>
          /\ CallerAfter.isBlocked
          /\ CallerAfter.blockUntil = Some(now' + New.args.duration)
          /\ securityEvents' =
               Append(securityEvents,
                      AdminEvent(New.sessionId, "admin_block", "high", now'))
     /\ (/\ Called /\ New.op \in Mutations
         /\ Len(responses) > 0 /\ Last.op = "blockSession"
         /\ Last.sessionId = New.sessionId
         /\ Known(userSessions, New.sessionId)
         /\ now' < Last.time + Last.args.duration) =>
          New.result = "blocked"
    ]_vars

\* C20: initializeCounter(name) on an absent counter inserts and returns the
\* record with value 0 / version 0, on an existing counter changes nothing and
\* returns the stored record, so a second call in a row changes nothing; it
\* touches no other table; the getCounter query changes no table and delivers
\* the stored counter, or value 0 / version 0 for an absent one.
C20_InitializeIdempotent ==
  [][/\ (Called /\ New.op = "initialize") =>
          LET i == CounterIndex(counters, New.args.name)
              fresh == [name |-> New.args.name, value |-> 0, lastUpdated |-> now',
                        version |-> 0, lastModifiedBy |-> None]
          IN /\ i = 0 => counters' = Append(counters, fresh)
                         /\ New.returned = Some(fresh)
             /\ i # 0 => counters' = counters /\ New.returned = Some(counters[i])
             /\ (Len(responses) > 0 /\ Last.op = "initialize"
                 /\ Last.args = New.args) => counters' = counters
             /\ UNCHANGED <<userSessions, securityEvents, requestAudit>>
     /\ ~Called =>
          /\ UNCHANGED <<counters, userSessions, securityEvents, requestAudit>>
          /\ \A c \in Clients :
               view'[c] # view[c] =>
                 view'[c] = Some([value |-> IF counters = <<>> THEN 0
                                            ELSE counters[1].value,
                                  version |-> StoredVersion(counters, COUNTER_NAME)])
    ]_vars

\* initializeCounter ran twice in a row on the absent counter and the query
\* delivered it: one record, value 0 / version 0, stamped by the first call.
C20_Witness ==
  /\ Len(responses) = 2
  /\ responses[1].op = "initialize" /\ responses[2].op = "initialize"
  /\ Len(counters) = 1
  /\ counters[1].value = 0 /\ counters[1].version = 0
  /\ counters[1].lastUpdated = responses[1].time
  /\ responses[2].returned = Some(counters[1])
  /\ view["s1"] = Some([value |-> 0, version |-> 0])

-----------------------------------------------------------------------------
(* Properties of the client's retry loop *)

\* This step is a call the loop of executeWithRetry made.
RetryCall == Called /\ New.sessionId = "s1"

Finished == retry.phase \in {"returned", "threw"}

\* C21: executeWithRetry calls the operation only while it runs and at most 3
\* times; a call that succeeds ends it with the result; a call that fails with
\* a version mismatch ends it with that error at once; the third failing call
\* ends it with the last error; any other failing call leaves it running; and
\* once entered it always ends, returning or throwing.
C21_RetryBounded ==
  /\ [][RetryCall =>
          /\ retry.phase = "running" /\ retry.attempt < 3
          /\ retry'.attempt = retry.attempt + 1
          /\ New.result = "success" => retry'.phase = "returned"
          /\ New.result = "version_mismatch" =>
               retry'.phase = "threw" /\ retry'.error = "version_mismatch"
          /\ (New.result \notin {"success", "version_mismatch"}
              /\ retry'.attempt = 3) =>
               retry'.phase = "threw" /\ retry'.error = New.result
          /\ (New.result \notin {"success", "version_mismatch"}
              /\ retry'.attempt < 3) =>
               retry'.phase = "running"
       ]_vars
  /\ (retry.phase = "running") ~> Finished

\* The first attempt was turned away as rate_limited, the loop slept and
\* called again, the second attempt succeeded and ended the loop.
C21_Witness ==
  /\ retry.phase = "returned" /\ retry.attempt = 2
  /\ retry.error = "rate_limited"
  /\ Len(responses) >= 2
  /\ Last.sessionId = "s1" /\ Last.result = "success"
  /\ responses[Len(responses) - 1].sessionId = "s1"
  /\ responses[Len(responses) - 1].result = "rate_limited"
  /\ Last.time - responses[Len(responses) - 1].time >= RETRY_DELAY_MS

-----------------------------------------------------------------------------
(* Properties of the dashboard queries *)

\* The event satisfies every field the filter supplies.
Satisfies(e, f) ==
  /\ f.severity # None => e.severity = f.severity[1]
  /\ f.eventType # None => e.eventType = f.eventType[1]
  /\ f.resolved # None => e.resolved = f.resolved[1]

\* C23 as stated: the list returned under a filter and a limit holds only
\* events that satisfy every supplied filter field, most recent first, and
\* holds fewer than limit (100 when none is given) only when no more events
\* satisfy the filter.
C23_AsStated ==
  [][(Called /\ New.op = "getSecurityEvents") =>
       LET f == New.args
           list == New.returned[1]
           limit == IF f.limit = None THEN 100 ELSE f.limit[1]
           matching == {k \in 1..Len(securityEvents) : Satisfies(securityEvents[k], f)}
       IN /\ \A k \in 1..Len(list) : Satisfies(list[k], f)
          /\ Len(list) = Min(limit, Cardinality(matching))
    ]_vars

\* What the code does keep of C23: under a filter that supplies at most one of
\* severity and eventType and no resolved flag, the list is the limit most
\* recent events that satisfy the filter.
C23_OneFieldFilter ==
  [][(/\ Called /\ New.op = "getSecurityEvents"
      /\ New.args.resolved = None
      /\ New.args.severity = None \/ New.args.eventType = None) =>
       LET f == New.args
           list == New.returned[1]
           limit == IF f.limit = None THEN 100 ELSE f.limit[1]
           Match(e) == Satisfies(e, f)
       IN list = Take(Descending(SelectSeq(securityEvents, Match)), limit)
    ]_vars

-----------------------------------------------------------------------------
(* Properties of concurrent requests *)

\* The records of session s, in insertion order.
SessionsOf(table, s) == SelectSeq(table, LAMBDA r : r.sessionId = s)

\* The tables after the calls of `calls` have run one after the other, each
\* at the time it has read, from the empty tables.
RECURSIVE Replay(_)
Replay(calls) ==
  IF calls = <<>> THEN EmptyDb
  ELSE LET call == calls[Len(calls)]
       IN incrementCounter(Replay(SubSeq(calls, 1, Len(calls) - 1)),
                           call.args, call.sessionId, call.time).db

\* C24: requests of one session evaluated concurrently come out as if they
\* had run one after the other in the order they committed: the tables are
\* those of that sequential run, a session id has exactly one session record
\* once a request of it has committed, the first request of an unseen session
\* leaves requestCount 1 and violationCount 0, and every later request builds
\* on the stored counts: an admitted one adds 1 to the stored requestCount
\* and takes the decay off the stored violationCount, a refused one adds 1
\* to the stored violationCount and leaves requestCount.
C24_Serialized ==
  /\ [](Db = Replay(responses))
  /\ [][Called =>
         LET before == SessionsOf(userSessions, New.sessionId)
             after == SessionsOf(userSessions', New.sessionId)
         IN /\ Len(after) = 1
            /\ before = <<>> =>
                 /\ New.result = "success"
                 /\ after[1].requestCount = 1 /\ after[1].violationCount = 0
            /\ (before # <<>> /\ New.result = "success") =>
                 /\ after[1].requestCount = before[1].requestCount + 1
                 /\ after[1].violationCount = Max(0, before[1].violationCount - DECAY)
            /\ (before # <<>> /\ New.result = "rate_limited") =>
                 /\ after[1].requestCount = before[1].requestCount
                 /\ after[1].violationCount = before[1].violationCount + ONE
      ]_vars

\* Two first requests of s1 have read the empty tables at the same time; one
\* has committed, the other has been run again and refused as the second.
C24_Witness ==
  /\ Len(responses) = 2
  /\ \A k \in 1..2 : responses[k].sessionId = "s1"
  /\ responses[2].result = "rate_limited"
  /\ \E k \in Slots :
       /\ inflight[k].phase = "committed" /\ inflight[k].runs = 2
       /\ inflight[k].time = responses[2].time
  /\ Len(SessionsOf(userSessions, "s1")) = 1
  /\ SessionsOf(userSessions, "s1")[1].violationCount = ONE

-----------------------------------------------------------------------------
(* Properties of the range check *)

\* An admitted increment finds the counter at the upper limit, or an admitted
\* decrement finds it at the lower limit.
AtLimitCall ==
  /\ Called /\ New.op \in {"increment", "decrement"}
  /\ New.result \notin AdmissionDenials
  /\ CounterIndex(counters, New.args.name) # 0
  /\ LET value == counters[CounterIndex(counters, New.args.name)].value
     IN \/ New.op = "increment" /\ value = MAX_COUNTER_VALUE
        \/ New.op = "decrement" /\ value = MIN_COUNTER_VALUE

\* The call fails with value_out_of_range, writes that one audit entry and
\* leaves the counters as they are.
RefusedOutOfRange ==
  /\ New.result = "value_out_of_range"
  /\ Len(requestAudit') = Len(requestAudit) + 1
  /\ LastAudit(requestAudit').result = "value_out_of_range"
  /\ LastAudit(requestAudit').sessionId = New.sessionId
  /\ LastAudit(requestAudit').action = New.op
  /\ counters' = counters

\* C25 as stated: an admitted increment on a counter at 1,000,000, or
\* decrement at -1,000,000, fails with value_out_of_range, writes an audit
\* entry with that result and leaves the counter's value and version.
C25_AsStated == [][AtLimitCall => RefusedOutOfRange]_vars

\* C25, amended: the same of a call that carries no expectedVersion or the
\* stored version (the version is checked before the range).
C25_OutOfRange ==
  [][(/\ AtLimitCall
      /\ \/ New.args.expectedVersion = None
         \/ New.args.expectedVersion = Some(StoredVersion(counters, New.args.name) * ONE))
     => RefusedOutOfRange]_vars

\* A decrement carrying the stored version has been refused at -1,000,000.
C25_Witness ==
  /\ Len(responses) >= 2
  /\ Last.op = "decrement" /\ Last.result = "value_out_of_range"
  /\ Last.args.expectedVersion = Some(StoredVersion(counters, COUNTER_NAME) * ONE)
  /\ counters[CounterIndex(counters, COUNTER_NAME)].value = MIN_COUNTER_VALUE
  /\ LastAudit(requestAudit).result = "value_out_of_range"

-----------------------------------------------------------------------------
(* Properties of the admission checks *)

\* C26 as stated: a request that finds its session blocked with the block run
\* out (now >= blockUntil) takes 1, floored at 0, off the stored
\* violationCount v and is evaluated with the result: admitted, it leaves
\* max(0, max(0, v - 1) - 0.1) stored; a violation, it leaves
\* max(0, v - 1) + 1 stored, and that is the count compared with the
\* threshold and used for the block duration.
C26_AsStated ==
  [][(/\ BlockedCall /\ New.result # "invalid_input"
      /\ now' >= Caller.blockUntil[1]) =>
       LET decremented == Max(0, Caller.violationCount - ONE)
       IN /\ New.result \notin AdmissionDenials =>
               CallerAfter.violationCount = Max(0, decremented - DECAY)
          /\ New.result \in {"rate_limited", "blocked"} =>
               /\ CallerAfter.violationCount = decremented + ONE
               /\ New.result = "blocked" <=>
                    decremented + ONE >= VIOLATION_THRESHOLD * ONE
               /\ New.result = "blocked" =>
                    CallerAfter.blockUntil =
                      Some(now' + calculateBlockDuration(decremented + ONE))
    ]_vars

\* C27: the first valid request of a session id that has no record is
\* admitted; it inserts the one record of the session with requestCount 1,
\* windowStart = lastActivity = now, violationCount 0 and isBlocked false,
\* changes no other session and logs no security event.
C27_FirstRequest ==
  [][(/\ Called /\ New.op \in Mutations
      /\ SessionIndex(userSessions, New.sessionId) = 0
      /\ ~FailsValidation(New.args)) =>
       /\ New.result \notin AdmissionDenials
       /\ Len(userSessions') = Len(userSessions) + 1
       /\ SubSeq(userSessions', 1, Len(userSessions)) = userSessions
       /\ LET created == userSessions'[Len(userSessions')]
          IN /\ created.sessionId = New.sessionId
             /\ created.requestCount = 1
             /\ created.windowStart = now' /\ created.lastActivity = now'
             /\ created.violationCount = 0
             /\ ~created.isBlocked /\ created.blockUntil = None
       /\ securityEvents' = securityEvents
    ]_vars

\* The first request of s2 came 10 ms after a request of s1, inside the
\* automation threshold, and was admitted as the first of its session.
C27_Witness ==
  /\ Len(responses) >= 2
  /\ Last.op = "increment" /\ Last.sessionId = "s2" /\ Last.result = "success"
  /\ \A k \in 1..(Len(responses) - 1) : responses[k].sessionId # "s2"
  /\ responses[Len(responses) - 1].op = "increment"
  /\ responses[Len(responses) - 1].sessionId = "s1"
  /\ Last.time - responses[Len(responses) - 1].time = 10
  /\ SessionIndex(userSessions, "s2") # 0
  /\ userSessions[SessionIndex(userSessions, "s2")].requestCount = 1
  /\ userSessions[SessionIndex(userSessions, "s2")].lastActivity = Last.time

\* This step serves a mutating request of a session stored as not blocked.
UnblockedCall ==
  /\ Called /\ New.op \in Mutations
  /\ SessionIndex(userSessions, New.sessionId) # 0
  /\ ~Caller.isBlocked

\* The security events a step has appended.
AddedEvents ==
  SubSeq(securityEvents', Len(securityEvents) + 1, Len(securityEvents'))

\* The types of events a step has appended.
AddedTypes == {AddedEvents[k].eventType : k \in 1..Len(AddedEvents)}

\* What C28 says of a request of an unblocked session: under 50 ms after
\* lastActivity it logs automation_detected (high) and no rate_limit; from 50
\* to under 100 ms it logs rate_limit (medium); and it raises violationCount
\* by 1 at most.
ByGap ==
  LET gap == now' - Caller.lastActivity
  IN /\ gap < AUTOMATION_DETECTION_THRESHOLD =>
          /\ Len(AddedEvents) >= 1
          /\ AddedEvents[1].eventType = "automation_detected"
          /\ AddedEvents[1].severity = "high"
          /\ "rate_limit" \notin AddedTypes
          /\ CallerAfter.violationCount = Caller.violationCount + ONE
     /\ (gap >= AUTOMATION_DETECTION_THRESHOLD /\ gap < RATE_LIMIT_DELAY) =>
          /\ Len(AddedEvents) >= 1
          /\ AddedEvents[1].eventType = "rate_limit"
          /\ AddedEvents[1].severity = "medium"
          /\ "automation_detected" \notin AddedTypes
          /\ CallerAfter.violationCount = Caller.violationCount + ONE
     /\ CallerAfter.violationCount <= Caller.violationCount + ONE

\* C28 as stated: every request of an unblocked existing session is handled
\* by its gap as above.
C28_AsStated == [][UnblockedCall => ByGap]_vars

\* C28, amended: every request of an unblocked existing session that passes
\* input validation is handled by its gap as above.
C28_ChecksByGap ==
  [][(UnblockedCall /\ New.result # "invalid_input") => ByGap]_vars

\* A request 60 ms after lastActivity has been counted as a rate-limit
\* violation only, and one 10 ms after it as automation only.
C28_Witness ==
  /\ Len(responses) >= 3
  /\ \E k \in 2..(Len(responses) - 1) :
       /\ responses[k].time - responses[k - 1].time = 60
       /\ responses[k].result = "rate_limited"
       /\ responses[k + 1].time - responses[k].time = 10
       /\ responses[k + 1].result = "rate_limited"
       /\ \E e \in 1..Len(securityEvents) :
            /\ securityEvents[e].timestamp = responses[k].time
            /\ securityEvents[e].eventType = "rate_limit"
       /\ \E e \in 1..Len(securityEvents) :
            /\ securityEvents[e].timestamp = responses[k + 1].time
            /\ securityEvents[e].eventType = "automation_detected"
  /\ \A e \in 1..Len(securityEvents) :
       securityEvents[e].eventType \in {"rate_limit", "automation_detected"}

\* This step serves a request that one of the three violation checks has
\* counted.
ViolationCall ==
  /\ Called /\ New.op \in Mutations
  /\ SessionIndex(userSessions, New.sessionId) # 0
  /\ Len(AddedEvents) >= 1
  /\ AddedEvents[1].eventType \in {"automation_detected", "rate_limit", "ddos_attempt"}

\* C29: a request counted by the automation, the rate-limit or the volume
\* check persists the incremented violationCount v and lastActivity = now; with
\* v >= 5 it persists the session as blocked until now + the block duration
\* of v, logs a blocked event after the violation's and is answered blocked;
\* with v < 5 it leaves the session unblocked, logs nothing more and is
\* answered rate_limited. No request leaves a session newly blocked with a
\* violationCount below 5.
C29_ThresholdBranches ==
  /\ [][ViolationCall =>
          LET v == CallerAfter.violationCount
          IN /\ ~Caller.isBlocked => v = Caller.violationCount + ONE
             /\ CallerAfter.lastActivity = now'
             /\ v >= VIOLATION_THRESHOLD * ONE =>
                  /\ New.result = "blocked"
                  /\ CallerAfter.isBlocked
                  /\ CallerAfter.blockUntil = Some(now' + calculateBlockDuration(v))
                  /\ Len(AddedEvents) = 2
                  /\ AddedEvents[2].eventType = "blocked"
             /\ v < VIOLATION_THRESHOLD * ONE =>
                  /\ New.result = "rate_limited"
                  /\ ~CallerAfter.isBlocked /\ CallerAfter.blockUntil = None
                  /\ Len(AddedEvents) = 1
       ]_vars
  /\ [][(/\ Called /\ New.op \in Mutations
         /\ SessionIndex(userSessions, New.sessionId) # 0
         /\ CallerAfter.isBlocked
         /\ ~Caller.isBlocked \/ CallerAfter.blockUntil # Caller.blockUntil) =>
          CallerAfter.violationCount >= VIOLATION_THRESHOLD * ONE
       ]_vars

\* The volume check has blocked s1: the 101st request of the window found
\* the count at the threshold, and a ddos_attempt and a blocked event were
\* logged for it.
C29_Witness ==
  /\ Len(responses) >= 2 /\ Len(securityEvents) >= 2
  /\ Last.result = "blocked"
  /\ securityEvents[Len(securityEvents) - 1].eventType = "ddos_attempt"
  /\ securityEvents[Len(securityEvents) - 1].timestamp = Last.time
  /\ securityEvents[Len(securityEvents)].eventType = "blocked"
  /\ securityEvents[Len(securityEvents)].timestamp = Last.time
  /\ userSessions[1].isBlocked
  /\ userSessions[1].violationCount >= VIOLATION_THRESHOLD * ONE

\* The entries of requestAudit for requests of session r admitted since its
\* window began.
AdmittedInWindow(r) ==
  {k \in 1..Len(requestAudit) :
     /\ requestAudit[k].sessionId = r.sessionId
     /\ requestAudit[k].result \notin AdmissionDenials
     /\ requestAudit[k].timestamp >= r.windowStart}

\* C30: in one rate window of a session at most 100 requests are admitted:
\* an admitted request no more than 10,000 ms after windowStart adds 1 to a
\* requestCount below 100 and leaves windowStart, one later than that starts
\* a window with requestCount 1; the request that finds requestCount at 100
\* or more inside the window, having passed the earlier checks, is refused,
\* logs ddos_attempt (critical) and raises violationCount by 1.
C30_WindowVolume ==
  /\ [](\A i \in 1..Len(userSessions) :
          Cardinality(AdmittedInWindow(userSessions[i])) <= MAX_REQUESTS)
  /\ [][(/\ Called /\ New.op \in Mutations
         /\ SessionIndex(userSessions, New.sessionId) # 0
         /\ New.result # "invalid_input") =>
          LET inWindow == now' - Caller.windowStart <= RATE_LIMIT_WINDOW
              admitted == New.result \notin AdmissionDenials
          IN /\ (admitted /\ inWindow) =>
                  /\ Caller.requestCount < MAX_REQUESTS
                  /\ CallerAfter.requestCount = Caller.requestCount + 1
                  /\ CallerAfter.windowStart = Caller.windowStart
             /\ (admitted /\ ~inWindow) =>
                  /\ CallerAfter.requestCount = 1
                  /\ CallerAfter.windowStart = now'
             /\ (/\ inWindow /\ Caller.requestCount >= MAX_REQUESTS
                 /\ ~StillBlocked(Caller, now')
                 /\ now' - Caller.lastActivity >= RATE_LIMIT_DELAY) =>
                  /\ New.result \in {"rate_limited", "blocked"}
                  /\ Len(AddedEvents) >= 1
                  /\ AddedEvents[1].eventType = "ddos_attempt"
                  /\ AddedEvents[1].severity = "critical"
                  /\ CallerAfter.violationCount = Caller.violationCount + ONE
       ]_vars

\* The 100th request of the window was admitted and the 101st, 100 ms later
\* and 10,000 ms after windowStart, was refused with a ddos_attempt event.
C30_Witness ==
  /\ Len(responses) >= 2
  /\ responses[Len(responses) - 1].result = "success"
  /\ Last.result = "rate_limited"
  /\ Last.time - responses[Len(responses) - 1].time = RATE_LIMIT_DELAY
  /\ Last.time = userSessions[1].windowStart + RATE_LIMIT_WINDOW
  /\ userSessions[1].requestCount = MAX_REQUESTS + 1
  /\ userSessions[1].violationCount = ONE
  /\ Cardinality(AdmittedInWindow(userSessions[1])) = MAX_REQUESTS
  /\ securityEvents[Len(securityEvents)].eventType = "ddos_attempt"
  /\ securityEvents[Len(securityEvents)].severity = "critical"

\* C31: a request of an existing unblocked session that passes input
\* validation, comes at least 100 ms after lastActivity and is at most the
\* 100th of its window (the first, when more than 10,000 ms have passed since
\* windowStart) is admitted; it persists requestCount + 1 counted from the
\* window in force, that window's start, lastActivity = now and
\* violationCount = max(0, violationCount - 0.1), and leaves isBlocked,
\* blockUntil and every other field of the record.
C31_AdmitPatch ==
  [][(/\ UnblockedCall /\ New.result # "invalid_input"
      /\ now' - Caller.lastActivity >= RATE_LIMIT_DELAY
      /\ \/ now' - Caller.windowStart > RATE_LIMIT_WINDOW
         \/ Caller.requestCount < MAX_REQUESTS) =>
       LET reset == now' - Caller.windowStart > RATE_LIMIT_WINDOW
       IN /\ New.result \notin AdmissionDenials
          /\ CallerAfter =
               [Caller EXCEPT
                  !.requestCount = IF reset THEN 1 ELSE Caller.requestCount + 1,
                  !.windowStart = IF reset THEN now' ELSE Caller.windowStart,
                  !.lastActivity = now',
                  !.violationCount = IF Caller.violationCount >= DECAY
                                     THEN Caller.violationCount - DECAY ELSE 0]
          /\ Len(userSessions') = Len(userSessions)
          /\ securityEvents' = securityEvents
    ]_vars

\* A request 60 s after a rate-limited one has started a new window and taken
\* 0.1 off a violationCount of 1.
C31_Witness ==
  /\ Len(responses) >= 3
  /\ responses[Len(responses) - 1].result = "rate_limited"
  /\ Last.result = "success"
  /\ Last.time - responses[Len(responses) - 1].time = BLOCK_DURATION_BASE
  /\ userSessions[1].windowStart = Last.time
  /\ userSessions[1].lastActivity = Last.time
  /\ userSessions[1].requestCount = 1
  /\ userSessions[1].violationCount = ONE - DECAY
  /\ ~userSessions[1].isBlocked

\* The audit entries a step has appended.
AddedAudits ==
  SubSeq(requestAudit', Len(requestAudit) + 1, Len(requestAudit'))

\* C32 as stated: the admission controller writes an audit entry on every
\* branch: a request it turns away appends one entry with the result it was
\* turned away with, and a request it lets proceed, the first of a session
\* included, appends an entry with result success whatever the engine does
\* with it afterwards.
C32_AsStated ==
  [][(Called /\ New.op \in Mutations) =>
       /\ New.result \in AdmissionDenials =>
            /\ Len(AddedAudits) = 1
            /\ AddedAudits[1].result = New.result
       /\ New.result \notin AdmissionDenials =>
            \E k \in 1..Len(AddedAudits) :
              /\ AddedAudits[k].result = "success"
              /\ AddedAudits[k].sessionId = New.sessionId
    ]_vars

\* C33: a request that passes input validation and finds its session blocked
\* with now < blockUntil is answered blocked and leaves every session record,
\* and every counter, as it was; it appends exactly one security event,
\* blocked_access_attempt of severity high, and exactly one audit entry, with
\* result blocked.
C33_BlockedAttemptFrame ==
  [][(/\ BlockedCall /\ New.result # "invalid_input"
      /\ now' < Caller.blockUntil[1]) =>
       /\ New.result = "blocked"
       /\ userSessions' = userSessions
       /\ counters' = counters
       /\ Len(AddedEvents) = 1
       /\ AddedEvents[1].eventType = "blocked_access_attempt"
       /\ AddedEvents[1].severity = "high"
       /\ AddedEvents[1].sessionId = New.sessionId
       /\ Len(AddedAudits) = 1
       /\ AddedAudits[1].result = "blocked"
       /\ AddedAudits[1].sessionId = New.sessionId
    ]_vars

\* A session the controller has blocked was turned away twice more, 10 ms
\* apart, and its record is still the one the block wrote.
C33_Witness ==
  /\ Len(responses) >= 3
  /\ \A k \in (Len(responses) - 2)..Len(responses) :
       responses[k].op = "increment" /\ responses[k].result = "blocked"
  /\ Last.time - responses[Len(responses) - 1].time = 10
  /\ userSessions[1].isBlocked
  /\ userSessions[1].lastActivity = responses[Len(responses) - 2].time
  /\ userSessions[1].blockUntil[1] > Last.time
  /\ securityEvents[Len(securityEvents)].eventType = "blocked_access_attempt"
  /\ securityEvents[Len(securityEvents) - 1].eventType = "blocked_access_attempt"
  /\ securityEvents[Len(securityEvents) - 2].eventType = "blocked"

-----------------------------------------------------------------------------
(* Properties of the counter's history *)

\* The calls so far that have changed the counter called `name`.
Applied(name) ==
  {k \in 1..Len(responses) :
     /\ responses[k].op \in Mutations
     /\ responses[k].result = "success"
     /\ responses[k].args.name = name}

\* The last of them that was a reset, 0 when there is none.
LastReset(name) ==
  LET resets == {k \in Applied(name) : responses[k].op = "reset"}
  IN IF resets = {} THEN 0 ELSE CHOOSE k \in resets : \A j \in resets : j <= k

\* Those of operation `op` since the last reset.
SinceReset(name, op) ==
  {k \in Applied(name) : k > LastReset(name) /\ responses[k].op = op}

\* C34: the value of every stored counter is the number of successful
\* increments less the number of successful decrements since it was created
\* or last reset, and its version is the number of successful increments,
\* decrements and resets since it was created.
C34_NoLostUpdate ==
  \A i \in 1..Len(counters) :
    /\ counters[i].value =
         Cardinality(SinceReset(counters[i].name, "increment"))
         - Cardinality(SinceReset(counters[i].name, "decrement"))
    /\ counters[i].version = Cardinality(Applied(counters[i].name))

\* Both clients have changed the counter, one with the version the other's
\* call had already moved on from refused in between, and the counter stands
\* at version 2.
C34_Witness ==
  /\ Len(responses) = 3
  /\ responses[1].op = "increment" /\ responses[1].sessionId = "s1"
  /\ responses[1].result = "success"
  /\ responses[2].sessionId = "s2" /\ responses[2].result = "version_mismatch"
  /\ responses[3].op = "decrement" /\ responses[3].sessionId = "s2"
  /\ responses[3].result = "success"
  /\ Len(counters) = 1 /\ counters[1].value = 0 /\ counters[1].version = 2

\* C35 as stated: every stored counter is named "global-counter".
C35_AsStated ==
  \A i \in 1..Len(counters) : counters[i].name = COUNTER_NAME

-----------------------------------------------------------------------------
(* Properties of the cleanup *)

\* C36 as stated: cleanupOldRecords lifts no block. Of a session that has
\* made a request and has then been blocked by the admin until T, a request
\* that follows a cleanupOldRecords call and comes before T is answered
\* blocked.
C36_AsStated ==
  [][(/\ Called /\ New.op \in Mutations /\ Len(responses) >= 3
      /\ Last.op = "cleanupOldRecords"
      /\ responses[Len(responses) - 1].op = "blockSession"
      /\ responses[Len(responses) - 1].sessionId = New.sessionId
      /\ responses[Len(responses) - 2].op \in Mutations
      /\ responses[Len(responses) - 2].sessionId = New.sessionId
      /\ responses[Len(responses) - 2].result = "success"
      /\ now' < responses[Len(responses) - 1].time
                + responses[Len(responses) - 1].args.duration) =>
       New.result = "blocked"
    ]_vars

-----------------------------------------------------------------------------
(* Properties across controller and engine *)

\* C37: a mutating request the admission controller turns away
\* (invalid_input, rate_limited or blocked) leaves every counter record as it
\* was.
C37_DeniedFrame ==
  [][(Called /\ New.op \in Mutations /\ New.result \in AdmissionDenials) =>
       counters' = counters]_vars

\* An increment has taken the counter to its upper limit, the admin has
\* blocked the session, and the decrement that followed was turned away: the
\* counter still stands at the limit.
C37_Witness ==
  /\ Len(responses) = 3
  /\ responses[1].op = "increment" /\ responses[1].result = "success"
  /\ responses[2].op = "blockSession"
  /\ Last.op = "decrement" /\ Last.result = "blocked"
  /\ Len(counters) = 1 /\ counters[1].value = MAX_COUNTER_VALUE

\* The audit entries of session s after this step, in order.
HistoryAfter(s) == SelectSeq(requestAudit', LAMBDA a : a.sessionId = s)

\* No admin call has touched the sessions.
NoAdminAction ==
  /\ \A e \in 1..Len(securityEvents) :
       securityEvents[e].eventType \notin {"admin_block", "admin_unblock"}
  /\ \A k \in 1..Len(responses') : responses'[k].op \in Mutations

\* This step serves a request of an existing session that has kept the rules
\* up to and with this request: valid input every time, every request at
\* least 100 ms after the one before, none turned away so far, and this one
\* at most the 100th of its window.
CompliantCall ==
  /\ Called /\ New.op \in Mutations /\ NoAdminAction
  /\ SessionIndex(userSessions, New.sessionId) # 0
  /\ LET history == HistoryAfter(New.sessionId)
     IN /\ \A k \in 1..Len(history) : ~FailsValidation(history[k].input)
        /\ \A k \in 2..Len(history) :
             history[k].timestamp - history[k - 1].timestamp >= RATE_LIMIT_DELAY
        /\ \A k \in 1..(Len(history) - 1) :
             history[k].result \notin AdmissionDenials
  /\ \/ now' - Caller.windowStart > RATE_LIMIT_WINDOW
     \/ Caller.requestCount < MAX_REQUESTS

\* C38: without admin actions, a request of a session that has kept the rules
\* up to and with this request is admitted, and leaves the session with
\* violationCount 0 and not blocked.
C38_NoFalsePositive ==
  [][CompliantCall =>
       /\ New.result \notin AdmissionDenials
       /\ CallerAfter.violationCount = 0
       /\ ~CallerAfter.isBlocked /\ CallerAfter.blockUntil = None
    ]_vars

\* The 100th request of a window, 100 ms after the 99th, has been admitted.
C38_Witness ==
  /\ Len(responses) = 1 /\ Last.result = "success"
  /\ Len(SelectSeq(requestAudit, LAMBDA a : a.result = "success")) = MAX_REQUESTS
  /\ userSessions[1].requestCount = MAX_REQUESTS
  /\ userSessions[1].lastActivity = userSessions[1].windowStart + 9900
  /\ userSessions[1].violationCount = 0 /\ ~userSessions[1].isBlocked

-----------------------------------------------------------------------------
(* Properties of the decay *)

\* The whole count v the session of SpecDecay set out with: one violation
\* event each.
StartCount == Len(securityEvents)

\* C39 as stated: an unblocked session with violationCount v that from then on
\* makes only compliant requests holds violationCount 0 after at most 10 * v
\* of them, each lowering the count, and the count then stays 0.
C39_AsStated ==
  /\ [](Len(responses) >= 10 * StartCount =>
          userSessions[1].violationCount = ZeroDouble)
  /\ [][Called =>
          \/ LessDouble(userSessions'[1].violationCount, userSessions[1].violationCount)
          \/ /\ userSessions[1].violationCount = ZeroDouble
             /\ userSessions'[1].violationCount = ZeroDouble
       ]_vars

\* C39, amended: the count falls with every compliant request until it is 0,
\* is 0 after at most 10 * v + 1 of them for a whole v below the blocking
\* threshold, and then stays 0.
C39_Forgiven ==
  /\ [](Len(responses) >= 10 * StartCount + 1 =>
          userSessions[1].violationCount = ZeroDouble)
  /\ [][Called =>
          \/ LessDouble(userSessions'[1].violationCount, userSessions[1].violationCount)
          \/ /\ userSessions[1].violationCount = ZeroDouble
             /\ userSessions'[1].violationCount = ZeroDouble
       ]_vars

\* A session that set out with violationCount 1 still holds 5 * 2^-55 after
\* ten compliant requests, and 0 after the eleventh.
C39_Witness ==
  /\ StartCount = 1
  /\ Len(responses) = 10 * StartCount + 1
  /\ userSessions[1].violationCount = ZeroDouble
  /\ userSessions[1].isBlocked = FALSE

-----------------------------------------------------------------------------
(* Properties of the audit trail *)

\* The outcomes a caller of increment, decrement or reset can receive.
Outcomes == Errors \cup {"success"}

\* C40: every increment, decrement or reset request that completes, admitted
\* or denied, succeeding or failing, appends exactly one audit entry, and the
\* result of that entry is the outcome the caller receives.
C40_OneAuditPerRequest ==
  [][(Called /\ New.op \in Mutations) =>
       /\ New.result \in Outcomes
       /\ OneAudit
    ]_vars

\* The last three requests were one that succeeded, one the engine refused and
\* one the controller denied, in any order, and the last three audit entries
\* carry their three outcomes in the same order.
C40_Witness ==
  /\ Len(responses) >= 3
  /\ Len(requestAudit) >= 3
  /\ LET recent == [k \in 1..3 |-> responses[Len(responses) - 3 + k]]
         audits == [k \in 1..3 |-> requestAudit[Len(requestAudit) - 3 + k]]
     IN /\ \A k \in 1..3 : recent[k].op \in Mutations
        /\ \E k \in 1..3 : recent[k].result = "success"
        /\ \E k \in 1..3 : recent[k].result \in Errors \ AdmissionDenials
        /\ \E k \in 1..3 : recent[k].result \in AdmissionDenials
        /\ \A k \in 1..3 : audits[k].result = recent[k].result
        /\ \A k \in 1..3 : audits[k].timestamp = recent[k].time

====
